---- MODULE Spec2Model ----
(***************************************************************************)
(* Campaign engine of the CRM backend: recipient resolution                *)
(* (CampaignService.create_campaign), the campaign life cycle              *)
(* (routers/campaigns.py), the delivery loop                               *)
(* (CampaignService.send_campaign), the in-memory scheduler                *)
(* (SchedulerService) and the task ledger with its restart recovery        *)
(* (routers/schedules.py).                                                 *)
(*                                                                         *)
(* Conventions.  A Python str is a sequence of one-character strings, so   *)
(* that strip(), lower() and split("@") are computed, not assumed.  None   *)
(* is NoneStr for a str column, 0 for an integer key and NoTime (0) for a  *)
(* timestamp; the clock starts at 1.                                       *)
(***************************************************************************)
EXTENDS Integers, Sequences, FiniteSets, TLC

\* ------------------------------------------------------------------ bounds
MaxCampaigns == 1
MaxCustomers == 2
MaxAdhoc == 2
MaxTime == 2
MaxTasks == 2
MaxFired == 2
MaxClicks == 2
NumCodes == 2

\* ----------------------------------------------------------------- strings
NoneStr == <<"None">>
NoTime == 0

\* str.lower() on one character of the model's alphabet
LowerChar(ch) == IF ch = "A" THEN "a" ELSE IF ch = "B" THEN "b" ELSE ch

Lower(s) == [i \in 1..Len(s) |-> LowerChar(s[i])]

RECURSIVE LStrip(_)
LStrip(s) == IF s # <<>> /\ Head(s) = " " THEN LStrip(Tail(s)) ELSE s

RECURSIVE RStrip(_)
RStrip(s) ==
    IF s # <<>> /\ s[Len(s)] = " " THEN RStrip(SubSeq(s, 1, Len(s) - 1)) ELSE s

Strip(s) == RStrip(LStrip(s))

\* email.strip().lower()   (campaign_service.py line 186)
NormalizeEmail(s) == Lower(Strip(s))

\* email.split("@")[0]
RECURSIVE LocalPart(_)
LocalPart(s) ==
    IF s = <<>> \/ Head(s) = "@" THEN <<>> ELSE <<Head(s)>> \o LocalPart(Tail(s))

\* Python truthiness of an Optional[str]
Truthy(s) == s # NoneStr /\ s # <<>>

\* --------------------------------------------------------------- variables
VARIABLES
    customers,        \* table customers: Seq of rows, id = index (external CRUD)
    campaigns,        \* table campaigns: id -> row
    nextCampaignId,   \* the table's id sequence
    recipients,       \* table campaign_recipients: id -> row
    nextRecipientId,
    links,            \* table tracked_links: id -> row
    nextLinkId,
    ledger,           \* table scheduled_tasks: id -> row
    jobs,             \* scheduler_service.scheduler job store: job id -> job
    schedulerUp,      \* scheduler_service.scheduler is not None
    now,              \* datetime.now()
    mailLog,          \* every call of email_service.send_email, in order
    sends,            \* send_campaign coroutines in flight: slot -> frame
    cancels,          \* cancel_campaign coroutine in flight (between awaits)
    reload,           \* reload_scheduled_tasks: rows still to visit, or idle
    fired,            \* every callback the scheduler has invoked, in order
    lastOp,           \* outcome of the handler that returned last
    serial,           \* TRUE: handlers run one at a time; FALSE: interleaved
    clicking          \* track_click coroutines in flight: slot -> frame

vars == <<customers, campaigns, nextCampaignId, recipients, nextRecipientId,
          links, nextLinkId, ledger, jobs, schedulerUp, now, mailLog, sends,
          cancels, reload, fired, lastOp, serial, clicking>>

dbVars == <<campaigns, nextCampaignId, recipients, nextRecipientId, links,
            nextLinkId, ledger>>

\* ------------------------------------------------- customers and filters
\* Course.course_type values
CompleteCourse == "complete_course"
ExperienceCourse == "experience_course"

\* course_type_map.get(course_type_filter): "" stands for None
CourseTypeMap(f) ==
    IF f = "complete" THEN CompleteCourse
    ELSE IF f = "experience" THEN ExperienceCourse
    ELSE ""

\* a row of ActivityParticipation JOIN Course passes the subquery's WHEREs
ParticipationMatches(p, course_type_filter, purchase_status_filter) ==
    /\ (course_type_filter # "all" /\ CourseTypeMap(course_type_filter) # "")
          => p.course_type = CourseTypeMap(course_type_filter)
    /\ purchase_status_filter = "purchased" => p.purchased
    /\ purchase_status_filter = "not_purchased" => ~p.purchased

CustomerIdSeq(custs) == [i \in 1..Len(custs) |-> i]

\* CampaignService.get_filtered_customers: the ids, in table order
get_filtered_customers(custs, course_type_filter, purchase_status_filter) ==
    IF course_type_filter = "all" /\ purchase_status_filter = "all"
    THEN SelectSeq(CustomerIdSeq(custs), LAMBDA i : custs[i].email # NoneStr)
    ELSE SelectSeq(CustomerIdSeq(custs),
            LAMBDA i : /\ custs[i].email # NoneStr
                       /\ \E p \in custs[i].parts :
                             ParticipationMatches(p, course_type_filter,
                                                  purchase_status_filter))

\* a new CampaignRecipient(campaign_id, customer_id)
CustomerRecipient(cid, customer_id) ==
    [campaign_id |-> cid, customer_id |-> customer_id, email |-> NoneStr,
     name |-> NoneStr, sent |-> FALSE, sent_at |-> NoTime, error_message |-> "",
     clicked |-> FALSE, clicked_at |-> NoTime]

\* a new CampaignRecipient(campaign_id, email, name)
EmailRecipient(cid, email) ==
    [campaign_id |-> cid, customer_id |-> 0, email |-> email,
     name |-> LocalPart(email), sent |-> FALSE, sent_at |-> NoTime,
     error_message |-> "", clicked |-> FALSE, clicked_at |-> NoTime]

\* the resolver's locals before step 1 (lines 148-150)
ResolverStart ==
    [rows |-> <<>>, added_customer_ids |-> {}, added_emails |-> {},
     total_recipients |-> 0, raised |-> FALSE]

\* if customer.id not in added_customer_ids: add, count  (lines 158-165, 174-181)
AddCustomerIfNew(acc, cid, customer_id) ==
    IF customer_id \in acc.added_customer_ids THEN acc
    ELSE [acc EXCEPT !.rows = Append(@, CustomerRecipient(cid, customer_id)),
                     !.added_customer_ids = @ \cup {customer_id},
                     !.total_recipients = @ + 1]

\* the for loops of steps 1 and 2 over the customers a query returned
RECURSIVE AddCustomers(_, _, _)
AddCustomers(acc, cid, idSeq) ==
    IF idSeq = <<>> THEN acc
    ELSE AddCustomers(AddCustomerIfNew(acc, cid, Head(idSeq)), cid, Tail(idSeq))

\* select(Customer).where(Customer.email == email): the matching ids
CustomersWithEmail(custs, email) ==
    {i \in 1..Len(custs) : custs[i].email # NoneStr /\ custs[i].email = email}

\* the step-3 iteration without the count of line 214 for an address that
\* belongs to a customer
AddAdhocEmailMutant(acc, custs, cid, raw) ==
    LET email == NormalizeEmail(raw)
        found == CustomersWithEmail(custs, email)
    IN  IF acc.raised THEN acc
        ELSE IF ~(email # <<>> /\ email \notin acc.added_emails) THEN acc
        ELSE IF Cardinality(found) > 1
             THEN [acc EXCEPT !.raised = TRUE]
        ELSE IF found # {} /\ (CHOOSE i \in found : TRUE) \in acc.added_customer_ids
             THEN acc
        ELSE IF found # {}
             THEN [acc EXCEPT
                     !.rows = Append(@, CustomerRecipient(cid, CHOOSE i \in found : TRUE)),
                     !.added_customer_ids = @ \cup {CHOOSE i \in found : TRUE},
                     !.added_emails = @ \cup {email}]
        ELSE [acc EXCEPT !.rows = Append(@, EmailRecipient(cid, email)),
                         !.added_emails = @ \cup {email},
                         !.total_recipients = @ + 1]

\* one iteration of the step-3 loop (lines 185-214)
AddAdhocEmail(acc, custs, cid, raw) ==
    LET email == NormalizeEmail(raw)
        found == CustomersWithEmail(custs, email)
    IN  IF acc.raised THEN acc
        ELSE IF ~(email # <<>> /\ email \notin acc.added_emails) THEN acc
        ELSE IF Cardinality(found) > 1
             THEN [acc EXCEPT !.raised = TRUE]        \* scalar_one_or_none raises
        ELSE IF found # {} /\ (CHOOSE i \in found : TRUE) \in acc.added_customer_ids
             THEN acc                                  \* continue
        ELSE IF found # {}
             THEN [acc EXCEPT
                     !.rows = Append(@, CustomerRecipient(cid, CHOOSE i \in found : TRUE)),
                     !.added_customer_ids = @ \cup {CHOOSE i \in found : TRUE},
                     !.added_emails = @ \cup {email},
                     !.total_recipients = @ + 1]
        ELSE [acc EXCEPT !.rows = Append(@, EmailRecipient(cid, email)),
                         !.added_emails = @ \cup {email},
                         !.total_recipients = @ + 1]

RECURSIVE AddAdhocEmails(_, _, _, _)
AddAdhocEmails(acc, custs, cid, emails) ==
    IF emails = <<>> THEN acc
    ELSE AddAdhocEmails(AddAdhocEmail(acc, custs, cid, Head(emails)), custs, cid,
                        Tail(emails))

\* steps 1-3 of create_campaign (lines 148-214)
ResolveRecipients(custs, cid, course_type_filter, purchase_status_filter, customer_ids, additional_emails, use_filter) ==
    LET s1 == IF use_filter
              THEN AddCustomers(ResolverStart, cid,
                      get_filtered_customers(custs, course_type_filter,
                                             purchase_status_filter))
              ELSE ResolverStart
        s2 == IF customer_ids # {}
              THEN AddCustomers(s1, cid,
                      SelectSeq(CustomerIdSeq(custs), LAMBDA i : i \in customer_ids))
              ELSE s1
    IN  IF additional_emails # <<>>
        THEN AddAdhocEmails(s2, custs, cid, additional_emails)
        ELSE s2

\* ------------------------------------------------------------ campaign rows
\* An href of the HTML content is [scheme, rest]; the content is the sequence
\* of its hrefs (the text around them plays no part in the delivery loop).
Href(scheme, rest) == [scheme |-> scheme, rest |-> rest]

SkippedSchemeMutant(h) == h.scheme \in {"mailto:", "#", "tel:"}

\* original_url.startswith(('mailto:', '#', 'tel:', 'javascript:'))  (line 104)
SkippedScheme(h) == h.scheme \in {"mailto:", "#", "tel:", "javascript:"}

\* the hrefs process_content_with_tracking replaces, in document order
TrackableHrefs(content) == SelectSeq(content, LAMBDA h : ~SkippedScheme(h))

\* Campaign(name, subject, content, filters, status="draft") and the column defaults
NewCampaign(name, subject, content, course_type_filter, purchase_status_filter) ==
    [name |-> name, subject |-> subject, content |-> content,
     course_type_filter |-> course_type_filter,
     purchase_status_filter |-> purchase_status_filter,
     status |-> "draft", scheduled_at |-> NoTime, sent_at |-> NoTime,
     total_recipients |-> 0, sent_count |-> 0, failed_count |-> 0]

\* f with the keys in D removed
Without(f, D) == [k \in DOMAIN f \ D |-> f[k]]

\* f extended with the rows of sequence rows at ids first, first+1, ...
Inserted(f, first, rows) ==
    [k \in DOMAIN f \cup {first + i - 1 : i \in 1..Len(rows)} |->
        IF k \in DOMAIN f THEN f[k] ELSE rows[k - first + 1]]

RecipientsOf(cid) == {r \in DOMAIN recipients : recipients[r].campaign_id = cid}
LinksOf(cid) == {l \in DOMAIN links : links[l].campaign_id = cid}

\* ----------------------------------------------------- handlers in flight
IdleSend ==
    [pc |-> "idle", cid |-> 0, content |-> <<>>, rlist |-> <<>>,
     snap_sent |-> {}, pos |-> 0, sent_count |-> 0, failed_count |-> 0,
     dirty |-> {}]
IdleCancel == [pc |-> "idle", cid |-> 0]

\* one send-now request and one scheduler callback can be in flight
SendSlots == {"http", "job"}

\* a track_click request between its SELECT and its commit: the link it
\* loaded, the click_count it set on the loaded object, the LinkClick it added
IdleClick == [pc |-> "idle", link |-> 0, click_count |-> 0, r |-> 0, clicked_at |-> NoTime]

\* two click requests can be in flight
ClickSlots == {"first", "second"}

NoneInFlight ==
    /\ \A s \in SendSlots : sends[s].pc = "idle"
    /\ cancels.pc = "idle"
    /\ \A k \in ClickSlots : clicking[k].pc = "idle"

\* a handler may start: the app serves requests (startup is over) and, when
\* handlers are taken one at a time, none is between two awaits
Ready == reload.pc = "idle" /\ (serial => NoneInFlight)

Response(op, cid, result) == [op |-> op, cid |-> cid, result |-> result]

\* ------------------------------------------------------- create / update
\* CampaignService.create_campaign: the row is committed first (line 145), the
\* recipients and total_recipients in a second commit (line 217); an exception
\* in between leaves the first commit.
create_campaign(name, subject, content, course_type_filter, purchase_status_filter, customer_ids, additional_emails, use_filter) ==
    LET cid == nextCampaignId
        row == NewCampaign(name, subject, content, course_type_filter,
                           purchase_status_filter)
        res == ResolveRecipients(customers, cid, course_type_filter,
                                 purchase_status_filter, customer_ids,
                                 additional_emails, use_filter)
    IN  /\ Ready
        /\ nextCampaignId <= MaxCampaigns
        /\ nextCampaignId' = cid + 1
        /\ IF res.raised
           THEN /\ campaigns' = Inserted(campaigns, cid, <<row>>)
                /\ UNCHANGED <<recipients, nextRecipientId>>
                /\ lastOp' = Response("create", cid, "raised")
           ELSE /\ campaigns' = Inserted(campaigns, cid,
                      <<[row EXCEPT !.total_recipients = res.total_recipients]>>)
                /\ recipients' = Inserted(recipients, nextRecipientId, res.rows)
                /\ nextRecipientId' = nextRecipientId + Len(res.rows)
                /\ lastOp' = Response("create", cid, "ok")
        /\ UNCHANGED <<customers, links, nextLinkId, ledger, jobs, schedulerUp,
                       now, mailLog, sends, cancels, reload, fired, serial, clicking>>

\* the check of line 234 letting scheduled campaigns through
UpdateAllowedMutant(status) == status \in {"draft", "scheduled"}

\* if not campaign or campaign.status != "draft": return None   (line 234)
UpdateAllowed(status) == status = "draft"

\* an update that resets total_recipients when a filter is changed
ApplyKwargsMutant(row, kwargs) ==
    [k \in DOMAIN row |->
        IF k \in DOMAIN kwargs THEN kwargs[k]
        ELSE IF k = "total_recipients" /\ "course_type_filter" \in DOMAIN kwargs
        THEN 0
        ELSE row[k]]

\* for key, value in kwargs.items(): setattr   (lines 237-239); kwargs is a
\* function from some of the five CampaignUpdate fields to non-None values
ApplyKwargs(row, kwargs) ==
    [k \in DOMAIN row |-> IF k \in DOMAIN kwargs THEN kwargs[k] ELSE row[k]]

\* PUT /campaigns/{id}: update_campaign; the recipients are selected (line 244)
\* but neither deleted nor rebuilt
update_campaign(cid, kwargs) ==
    /\ Ready
    /\ IF cid \in DOMAIN campaigns /\ UpdateAllowed(campaigns[cid].status)
       THEN /\ campaigns' = [campaigns EXCEPT ![cid] = ApplyKwargs(@, kwargs)]
            /\ lastOp' = Response("update", cid, "ok")
       ELSE /\ UNCHANGED campaigns
            /\ lastOp' = Response("update", cid, "rejected")
    /\ UNCHANGED <<customers, nextCampaignId, recipients, nextRecipientId, links,
                   nextLinkId, ledger, jobs, schedulerUp, now, mailLog, sends,
                   cancels, reload, fired, serial, clicking>>

\* if not campaign or campaign.status != "draft": return False   (line 286)
DeleteAllowed(status) == status = "draft"

\* link_clicks.recipient_id is ForeignKey(..., ondelete="SET NULL")
\* (db_models.py line 139): where the database enforces foreign keys, deleting
\* the recipient rows in gone sets the column to NULL (0) in the clicks that
\* name them
RecipientsSetNull(ls, gone) ==
    [l \in DOMAIN ls |->
        [ls[l] EXCEPT !.clicks =
            [i \in 1..Len(@) |->
                IF @[i].recipient_id \in gone
                THEN [@[i] EXCEPT !.recipient_id = 0]
                ELSE @[i]]]]

\* DELETE /campaigns/{id}: delete_campaign; recipients and tracked links go
\* with the row (cascade="all, delete-orphan"); fk says whether the database
\* enforces foreign keys (PostgreSQL does, SQLite as configured here does not)
delete_campaign(cid, fk) ==
    /\ Ready
    /\ IF cid \in DOMAIN campaigns /\ DeleteAllowed(campaigns[cid].status)
       THEN /\ campaigns' = Without(campaigns, {cid})
            /\ recipients' = Without(recipients, RecipientsOf(cid))
            /\ links' = IF fk
                        THEN RecipientsSetNull(Without(links, LinksOf(cid)),
                                               RecipientsOf(cid))
                        ELSE Without(links, LinksOf(cid))
            /\ lastOp' = Response("delete", cid, "ok")
       ELSE /\ UNCHANGED <<campaigns, recipients, links>>
            /\ lastOp' = Response("delete", cid, "rejected")
    /\ UNCHANGED <<customers, nextCampaignId, nextRecipientId, nextLinkId, ledger,
                   jobs, schedulerUp, now, mailLog, sends, cancels, reload, fired,
                   serial, clicking>>

\* ------------------------------------------------------------- scheduler
\* job ids: f"campaign_{campaign_id}" is <<"campaign", id>>,
\* f"once_{task_type}_{uuid8}" is <<"once", n>> and
\* f"recurring_{task_type}_{uuid8}" is <<"recurring", n>>, n the uuid's value
CampaignJobId(cid) == <<"campaign", cid>>

NoParams == [customer_ids |-> {}, additional_emails |-> <<>>,
             email_subject |-> "", email_content |-> ""]

\* the callable a job holds, with the arguments bound to it
CampaignCallback(cid) ==
    [fn |-> "execute_scheduled_campaign", campaign_id |-> cid,
     task_type |-> "", params |-> NoParams]
TaskCallback(task_type, params) ==
    [fn |-> "task_func", campaign_id |-> 0, task_type |-> task_type,
     params |-> params]

\* add_job(func, trigger=DateTrigger(run_date=run_at), id=job_id,
\*         replace_existing=True)   (lines 55-62)
DateJob(func, run_at) ==
    [trigger |-> "date", run_at |-> run_at, cron |-> NoneStr, func |-> func]

RECURSIVE FieldCount(_)
\* len(cron_expression.split()): the number of runs of non-blank characters
FieldCount(s) ==
    IF s = <<>> THEN 0
    ELSE IF Head(s) = " " THEN FieldCount(Tail(s))
    ELSE IF Len(s) = 1 \/ s[2] = " " THEN 1 + FieldCount(Tail(s))
    ELSE FieldCount(Tail(s))

\* the check of lines 85-87 with < for !=
ValidCronMutant(cron) == ~(FieldCount(cron) < 5)

\* if len(parts) != 5: raise ValueError   (lines 85-87)
ValidCron(cron) == FieldCount(cron) = 5

\* add_job(func, trigger=CronTrigger(...), id=job_id, replace_existing=True)
\* (lines 89-105); the expressions of this model match every time unit, so
\* the next run is the unit after the clock
CronJob(func, cron, clock) ==
    [trigger |-> "cron", run_at |-> clock + 1, cron |-> cron, func |-> func]

\* add_job with replace_existing=False and the conflict ignored
UpsertMutant(f, k, v) == [x \in DOMAIN f \cup {k} |-> IF x \in DOMAIN f THEN f[x] ELSE v]

\* f with key k bound to v, k new or not (replace_existing=True)
Upsert(f, k, v) == [x \in DOMAIN f \cup {k} |-> IF x = k THEN v ELSE f[x]]

\* the check of lines 52-53 and 81-82 left out
NotInitializedMutant(up) == FALSE

\* if not self.scheduler: raise RuntimeError   (lines 52-53, 81-82)
NotInitialized(up) == ~up

\* SchedulerService.schedule_once below its "not initialized" check
schedule_once(store, job_id, func, run_at) == Upsert(store, job_id, DateJob(func, run_at))

\* SchedulerService.schedule_recurring past its checks
schedule_recurring(store, job_id, func, cron, clock) ==
    Upsert(store, job_id, CronJob(func, cron, clock))

\* SchedulerService.cancel_job: remove_job, its JobLookupError swallowed
cancel_job(store, job_id) == Without(store, {job_id})

\* ScheduledTask(...) as schedule_campaign builds it (lines 250-257)
CampaignTask(cid, job_id, scheduled_at) ==
    [task_type |-> "campaign", reference_id |-> cid, job_id |-> job_id,
     scheduled_at |-> scheduled_at, is_recurring |-> FALSE,
     cron_expression |-> NoneStr, task_params |-> NoParams,
     has_params |-> FALSE, status |-> "pending"]

\* ScheduledTask(...) as create_once_task builds it (lines 276-284)
OnceTask(task_type, job_id, scheduled_at, params) ==
    [task_type |-> task_type, reference_id |-> 0, job_id |-> job_id,
     scheduled_at |-> scheduled_at, is_recurring |-> FALSE,
     cron_expression |-> NoneStr, task_params |-> params, has_params |-> TRUE,
     status |-> "pending"]

\* ScheduledTask(...) as create_recurring_task builds it (lines 415-423)
RecurringTask(task_type, job_id, cron, params) ==
    [task_type |-> task_type, reference_id |-> 0, job_id |-> job_id,
     scheduled_at |-> NoTime, is_recurring |-> TRUE,
     cron_expression |-> cron, task_params |-> params, has_params |-> TRUE,
     status |-> "pending"]

NextLedgerId == Cardinality(DOMAIN ledger) + 1

\* unique=True on scheduled_tasks.job_id
LedgerHasJobId(job_id) == \E t \in DOMAIN ledger : ledger[t].job_id = job_id

\* if campaign.status != "draft": raise 400   (line 226)
ScheduleAllowed(status) == status = "draft"

\* the check of line 229 with < for <=
InFutureMutant(t, clock) == ~(t < clock)

\* if schedule.scheduled_at <= datetime.now(): raise 400   (line 229)
InFuture(t, clock) == ~(t <= clock)

\* POST /campaigns/{id}/schedule
schedule_campaign(cid, scheduled_at) ==
    /\ Ready
    /\ IF cid \notin DOMAIN campaigns
           \/ ~ScheduleAllowed(campaigns[cid].status)
           \/ ~InFuture(scheduled_at, now)
       THEN /\ lastOp' = Response("schedule", cid, "rejected")
            /\ UNCHANGED <<campaigns, jobs, ledger>>
       ELSE IF NotInitialized(schedulerUp)
       THEN \* schedule_once raises RuntimeError: nothing is committed
            /\ lastOp' = Response("schedule", cid, "raised")
            /\ UNCHANGED <<campaigns, jobs, ledger>>
       ELSE /\ jobs' = schedule_once(jobs, CampaignJobId(cid),
                                     CampaignCallback(cid), scheduled_at)
            /\ IF LedgerHasJobId(CampaignJobId(cid))
               THEN \* the commit fails on the unique job_id: rolled back
                    /\ lastOp' = Response("schedule", cid, "raised")
                    /\ UNCHANGED <<campaigns, ledger>>
               ELSE /\ campaigns' = [campaigns EXCEPT
                                        ![cid].status = "scheduled",
                                        ![cid].scheduled_at = scheduled_at]
                    /\ ledger' = Inserted(ledger, NextLedgerId,
                          <<CampaignTask(cid, CampaignJobId(cid), scheduled_at)>>)
                    /\ lastOp' = Response("schedule", cid, "ok")
    /\ UNCHANGED <<customers, nextCampaignId, recipients, nextRecipientId, links,
                   nextLinkId, schedulerUp, now, mailLog, sends, cancels, reload,
                   fired, serial, clicking>>

\* POST /schedules/once; uuid is the value uuid4().hex[:8] takes
create_once_task(task_type, scheduled_at, params, uuid) ==
    /\ Ready
    /\ Cardinality(DOMAIN ledger) < MaxTasks
    /\ IF scheduled_at <= now
       THEN /\ lastOp' = Response("once", 0, "rejected")
            /\ UNCHANGED <<jobs, ledger>>
       ELSE IF NotInitialized(schedulerUp)
       THEN \* schedule_once raises RuntimeError before db.add
            /\ lastOp' = Response("once", 0, "raised")
            /\ UNCHANGED <<jobs, ledger>>
       ELSE /\ jobs' = schedule_once(jobs, <<"once", uuid>>,
                                     TaskCallback(task_type, params), scheduled_at)
            /\ IF LedgerHasJobId(<<"once", uuid>>)
               THEN \* the commit fails on the unique job_id
                    /\ lastOp' = Response("once", 0, "raised")
                    /\ UNCHANGED ledger
               ELSE /\ ledger' = Inserted(ledger, NextLedgerId,
                          <<OnceTask(task_type, <<"once", uuid>>, scheduled_at,
                                     params)>>)
                    /\ lastOp' = Response("once", 0, "ok")
    /\ UNCHANGED <<customers, campaigns, nextCampaignId, recipients,
                   nextRecipientId, links, nextLinkId, schedulerUp, now, mailLog,
                   sends, cancels, reload, fired, serial, clicking>>

\* POST /schedules/recurring
create_recurring_task(task_type, cron, params, uuid) ==
    /\ Ready
    /\ Cardinality(DOMAIN ledger) < MaxTasks
    /\ IF NotInitialized(schedulerUp) \/ ~ValidCron(cron)
       THEN \* schedule_recurring raises RuntimeError or ValueError
            /\ lastOp' = Response("recurring", 0, "raised")
            /\ UNCHANGED <<jobs, ledger>>
       ELSE /\ jobs' = schedule_recurring(jobs, <<"recurring", uuid>>,
                            TaskCallback(task_type, params), cron, now)
            /\ IF LedgerHasJobId(<<"recurring", uuid>>)
               THEN /\ lastOp' = Response("recurring", 0, "raised")
                    /\ UNCHANGED ledger
               ELSE /\ ledger' = Inserted(ledger, NextLedgerId,
                          <<RecurringTask(task_type, <<"recurring", uuid>>, cron,
                                          params)>>)
                    /\ lastOp' = Response("recurring", 0, "ok")
    /\ UNCHANGED <<customers, campaigns, nextCampaignId, recipients,
                   nextRecipientId, links, nextLinkId, schedulerUp, now, mailLog,
                   sends, cancels, reload, fired, serial, clicking>>

\* cancel_job returning True whenever the scheduler is there
cancel_job_returnsMutant(up, store, job_id) == up

\* what SchedulerService.cancel_job returns: False when the scheduler is not
\* there or remove_job raised JobLookupError (lines 112-121)
cancel_job_returns(up, store, job_id) == up /\ job_id \in DOMAIN store

\* the ledger rows select(ScheduledTask).where(job_id == job_id) finds
TasksWithJobId(job_id) == {t \in DOMAIN ledger : ledger[t].job_id = job_id}

\* DELETE /schedules/{job_id}
cancel_schedule(job_id) ==
    /\ Ready
    /\ jobs' = IF schedulerUp THEN cancel_job(jobs, job_id) ELSE jobs
    /\ ledger' = [t \in DOMAIN ledger |->
                    IF t \in TasksWithJobId(job_id)
                    THEN [ledger[t] EXCEPT !.status = "cancelled"]
                    ELSE ledger[t]]
    /\ lastOp' = IF ~cancel_job_returns(schedulerUp, jobs, job_id)
                    /\ TasksWithJobId(job_id) = {}
                 THEN Response("unschedule", 0, "rejected")
                 ELSE Response("unschedule", 0, "ok")
    /\ UNCHANGED <<customers, campaigns, nextCampaignId, recipients,
                   nextRecipientId, links, nextLinkId, schedulerUp, now, mailLog,
                   sends, cancels, reload, fired, serial, clicking>>

\* the check of line 309 turned into "anything but a draft"
CancelAllowedMutant(status) == status # "draft"

\* if campaign.status != "scheduled": raise 400   (line 309)
CancelAllowed(status) == status = "scheduled"

\* POST /campaigns/{id}/cancel up to its commit: the row is read, checked,
\* the job is cancelled and status is set on the session's object
cancel_campaign_read(cid) ==
    /\ Ready
    /\ cancels.pc = "idle"
    /\ IF cid \in DOMAIN campaigns /\ CancelAllowed(campaigns[cid].status)
       THEN /\ jobs' = IF schedulerUp THEN cancel_job(jobs, CampaignJobId(cid))
                       ELSE jobs
            /\ cancels' = [pc |-> "commit", cid |-> cid]
            /\ UNCHANGED lastOp
       ELSE /\ lastOp' = Response("cancel", cid, "rejected")
            /\ UNCHANGED <<jobs, cancels>>
    /\ UNCHANGED <<customers, campaigns, nextCampaignId, recipients,
                   nextRecipientId, links, nextLinkId, ledger, schedulerUp, now,
                   mailLog, sends, reload, fired, serial, clicking>>

\* campaign.status = "cancelled"; await db.commit()   (lines 317-318): an
\* UPDATE of the status column by primary key, whatever the row holds now
cancel_campaign_commit ==
    /\ cancels.pc = "commit"
    /\ IF cancels.cid \in DOMAIN campaigns
       THEN /\ campaigns' = [campaigns EXCEPT ![cancels.cid].status = "cancelled"]
            /\ lastOp' = Response("cancel", cancels.cid, "ok")
       ELSE /\ UNCHANGED campaigns
            /\ lastOp' = Response("cancel", cancels.cid, "raised")
    /\ cancels' = IdleCancel
    /\ UNCHANGED <<customers, nextCampaignId, recipients, nextRecipientId, links,
                   nextLinkId, ledger, jobs, schedulerUp, now, mailLog, sends,
                   reload, fired, serial, clicking>>

\* ---------------------------------------------------------------- delivery
RECURSIVE SortedSeq(_)
SortedSeq(S) ==
    IF S = {} THEN <<>>
    ELSE LET m == CHOOSE x \in S : \A y \in S : x <= y
         IN  <<m>> \o SortedSeq(S \ {m})

\* the check of line 311 refusing cancelled campaigns only
SendPreconditionMutant(status) == status # "cancelled"

\* if campaign.status not in ["draft", "scheduled"]: return error   (line 311)
SendPrecondition(status) == status \in {"draft", "scheduled"}

\* customer.email if recipient.customer else recipient.email   (lines 327-333)
RecipientEmail(rec) ==
    IF rec.customer_id # 0 THEN customers[rec.customer_id].email ELSE rec.email

\* the check of line 335 testing for None only
NoUsableEmailMutant(rec) == RecipientEmail(rec) = NoneStr

\* if not recipient_email   (line 335)
NoUsableEmail(rec) == ~Truthy(RecipientEmail(rec))

\* generate_tracking_code: str(uuid.uuid4())[:8], one of finitely many values
Codes == 1..NumCodes

\* TrackedLink rows for the trackable hrefs of content, with the codes drawn
TrackedLinkRows(cid, content, codes) ==
    [i \in 1..Len(TrackableHrefs(content)) |->
        [campaign_id |-> cid, tracking_code |-> codes[i],
         original_url |-> TrackableHrefs(content)[i], click_count |-> 0,
         clicks |-> <<>>]]

\* f"{base_url}/t/{tracking_code}?r={recipient_id}"  (line 109)
TrackingUrl(base_url, tracking_code, recipient_id) == Href(base_url, <<"/t/", tracking_code, "?r=", recipient_id>>)

\* the number of hrefs among content[1..i] that replace_link replaces
ReplacedUpTo(content, i) == Len(TrackableHrefs(SubSeq(content, 1, i)))

\* process_content_with_tracking (lines 82-121): re.sub calls replace_link on
\* each href in document order; a skipped href is returned as matched, any
\* other is given the next code, appended to tracked_links and replaced
process_content_with_tracking(content, campaign_id, recipient_id, base_url, codes) ==
    [content |->
        [i \in 1..Len(content) |->
            IF SkippedScheme(content[i]) THEN content[i]
            ELSE TrackingUrl(base_url, codes[ReplacedUpTo(content, i)],
                             recipient_id)],
     tracked_links |->
        [k \in 1..Len(TrackableHrefs(content)) |->
            [tracking_code |-> codes[k],
             original_url |-> TrackableHrefs(content)[k],
             campaign_id |-> campaign_id]]]

\* unique=True on tracked_links.tracking_code: the INSERTs of a commit fail
CodeCollision(rows) ==
    \/ \E i \in 1..Len(rows) : \E l \in DOMAIN links :
          links[l].tracking_code = rows[i].tracking_code
    \/ \E i, j \in 1..Len(rows) : i # j /\ rows[i].tracking_code = rows[j].tracking_code

\* the recipient rows with the session's pending "invalid email" marks written
Flushed(rs, dirty) ==
    [r \in DOMAIN rs |->
        IF r \in dirty THEN [rs[r] EXCEPT !.error_message = "invalid_email"]
        ELSE rs[r]]

\* send_campaign up to its first commit (lines 301-316): the campaign and its
\* recipients are loaded into the session, the status is checked and set
SendRead(s, cid) ==
    /\ sends[s].pc = "idle"
    /\ IF cid \in DOMAIN campaigns /\ SendPrecondition(campaigns[cid].status)
       THEN /\ sends' = [sends EXCEPT ![s] =
                  [pc |-> "start", cid |-> cid,
                   content |-> campaigns[cid].content,
                   rlist |-> SortedSeq(RecipientsOf(cid)),
                   snap_sent |-> {r \in RecipientsOf(cid) : recipients[r].sent},
                   pos |-> 1, sent_count |-> 0, failed_count |-> 0,
                   dirty |-> {}]]
            /\ UNCHANGED lastOp
       ELSE /\ lastOp' = Response("send", cid, "rejected")
            /\ UNCHANGED sends

\* POST /campaigns/{id}/send-now: the endpoint's own check (lines 277-283) is
\* the same as send_campaign's and reads the same session object
send_campaign_now(cid) ==
    /\ Ready
    /\ SendRead("http", cid)
    /\ UNCHANGED <<customers, campaigns, nextCampaignId, recipients,
                   nextRecipientId, links, nextLinkId, ledger, jobs, schedulerUp,
                   now, mailLog, cancels, reload, fired, serial, clicking>>

\* campaign.status = "sending"; sent_at = now; await db.commit()  (lines 315-317)
send_campaign_start(s) ==
    /\ sends[s].pc = "start"
    /\ IF sends[s].cid \in DOMAIN campaigns
       THEN /\ campaigns' = [campaigns EXCEPT ![sends[s].cid].status = "sending",
                                              ![sends[s].cid].sent_at = now]
            /\ sends' = [sends EXCEPT ![s].pc = "loop"]
            /\ UNCHANGED lastOp
       ELSE \* the row is gone: the UPDATE matches nothing and commit raises
            /\ UNCHANGED campaigns
            /\ sends' = [sends EXCEPT ![s] = IdleSend]
            /\ lastOp' = Response("send", sends[s].cid, "raised")
    /\ UNCHANGED <<customers, nextCampaignId, recipients, nextRecipientId, links,
                   nextLinkId, ledger, jobs, schedulerUp, now, mailLog, cancels,
                   reload, fired, serial, clicking>>

\* what the try block of one loop iteration can do (lines 340-381)
TryOutcomes == {"sent", "mailer_failed", "exception"}

\* one iteration of the loop `for recipient in campaign.recipients`
\* (lines 322-383), with the outcome of the try block and the codes drawn
send_recipient(s, outcome, codes) ==
    LET f == sends[s]
        rid == f.rlist[f.pos]
        rec == recipients[rid]
        rows == TrackedLinkRows(f.cid, f.content, codes)
    IN
    /\ f.pc = "loop"
    /\ f.pos <= Len(f.rlist)
    /\ IF rid \in f.snap_sent
       THEN \* if recipient.sent: continue
            /\ sends' = [sends EXCEPT ![s].pos = @ + 1]
            /\ UNCHANGED <<recipients, links, nextLinkId, mailLog, lastOp>>
       ELSE IF NoUsableEmail(rec)
       THEN \* error_message set on the session's object, no commit, continue
            /\ sends' = [sends EXCEPT ![s].pos = @ + 1,
                                      ![s].failed_count = @ + 1,
                                      ![s].dirty = @ \cup {rid}]
            /\ UNCHANGED <<recipients, links, nextLinkId, mailLog, lastOp>>
       ELSE IF outcome = "exception"
       THEN \* raised inside the try: caught, recorded, committed
            /\ recipients' = [Flushed(recipients, f.dirty) EXCEPT
                                 ![rid].error_message = "exception"]
            /\ sends' = [sends EXCEPT ![s].pos = @ + 1,
                                      ![s].failed_count = @ + 1,
                                      ![s].dirty = {}]
            /\ UNCHANGED <<links, nextLinkId, mailLog, lastOp>>
       ELSE \* the links are added to the session, the mailer is called
            /\ mailLog' = Append(mailLog,
                  [rid |-> rid, to |-> RecipientEmail(rec), ok |-> outcome = "sent"])
            /\ IF CodeCollision(rows)
               THEN \* await db.commit() (line 383) raises outside the try:
                    \* the transaction is rolled back, send_campaign is left
                    /\ sends' = [sends EXCEPT ![s] = IdleSend]
                    /\ lastOp' = Response("send", f.cid, "raised")
                    /\ UNCHANGED <<recipients, links, nextLinkId>>
               ELSE /\ links' = Inserted(links, nextLinkId, rows)
                    /\ nextLinkId' = nextLinkId + Len(rows)
                    /\ recipients' =
                          IF outcome = "sent"
                          THEN [Flushed(recipients, f.dirty) EXCEPT
                                   ![rid].sent = TRUE, ![rid].sent_at = now]
                          ELSE [Flushed(recipients, f.dirty) EXCEPT
                                   ![rid].error_message = "send_failed"]
                    /\ sends' = [sends EXCEPT
                          ![s].pos = @ + 1,
                          ![s].sent_count = IF outcome = "sent" THEN @ + 1 ELSE @,
                          ![s].failed_count = IF outcome = "sent" THEN @ ELSE @ + 1,
                          ![s].dirty = {}]
                    /\ UNCHANGED lastOp
    /\ UNCHANGED <<customers, campaigns, nextCampaignId, nextRecipientId, ledger,
                   jobs, schedulerUp, now, cancels, reload, fired, serial, clicking>>

\* after the loop (lines 386-389): status, counters, commit, return
send_campaign_finish(s) ==
    LET f == sends[s] IN
    /\ f.pc = "loop"
    /\ f.pos > Len(f.rlist)
    /\ campaigns' = [campaigns EXCEPT ![f.cid].status = "completed",
                                      ![f.cid].sent_count = f.sent_count,
                                      ![f.cid].failed_count = f.failed_count]
    /\ recipients' = Flushed(recipients, f.dirty)
    /\ sends' = [sends EXCEPT ![s] = IdleSend]
    /\ lastOp' = Response("send", f.cid, "ok")
    /\ UNCHANGED <<customers, nextCampaignId, nextRecipientId, links, nextLinkId,
                   ledger, jobs, schedulerUp, now, mailLog, cancels, reload, fired,
                   serial, clicking>>

\* ---------------------------------------------------------- click tracking
\* select(TrackedLink) with its WHERE on the tracking code left out
LinksWithCodeMutant(code) == DOMAIN links

\* select(TrackedLink).where(tracking_code == tracking_code)   (lines 27-29)
LinksWithCode(code) == {l \in DOMAIN links : links[l].tracking_code = code}

\* LinkClick(tracked_link_id, recipient_id, clicked_at)   (lines 37-43); the
\* link_clicks rows are kept with their tracked link, in insertion order
LinkClick(r, clock) == [recipient_id |-> r, clicked_at |-> clock]

\* line 54 without its "not recipient.clicked"
FirstClickMutant(r) == r # 0 /\ r \in DOMAIN recipients

\* if r: ... if recipient and not recipient.clicked   (lines 49-54)
FirstClick(r) == r # 0 /\ r \in DOMAIN recipients /\ ~recipients[r].clicked

\* GET /t/{tracking_code}?r={recipient_id}; r = 0 is the absent parameter,
\* fk says whether the database enforces link_clicks.recipient_id's foreign
\* key (PostgreSQL does, SQLite as configured here does not)
track_click(code, r, fk) ==
    /\ Ready
    /\ \A l \in LinksWithCode(code) : links[l].click_count < MaxClicks
    /\ IF LinksWithCode(code) = {}
       THEN /\ lastOp' = Response("click", 0, "home")
            /\ UNCHANGED <<links, recipients>>
       ELSE IF fk /\ r # 0 /\ r \notin DOMAIN recipients
       THEN \* the commit fails on the foreign key: rolled back
            /\ lastOp' = Response("click", 0, "raised")
            /\ UNCHANGED <<links, recipients>>
       ELSE LET l == CHOOSE x \in LinksWithCode(code) : TRUE
            IN  /\ links' = [links EXCEPT
                                ![l].click_count = @ + 1,
                                ![l].clicks = Append(@, LinkClick(r, now))]
                /\ recipients' = IF FirstClick(r)
                                 THEN [recipients EXCEPT ![r].clicked = TRUE,
                                                         ![r].clicked_at = now]
                                 ELSE recipients
                /\ lastOp' = Response("click", l, "redirect")
    /\ UNCHANGED <<customers, campaigns, nextCampaignId, nextRecipientId,
                   nextLinkId, ledger, jobs, schedulerUp, now, mailLog, sends,
                   cancels, reload, fired, serial, clicking>>

\* track_click as two steps, for requests that other handlers run between.
\* First step: the SELECT of lines 27-30 and the code up to the next await
\* (lines 32-47): the LinkClick is added to the session and click_count is
\* set, on the loaded object, to the loaded value plus one
track_click_read(k, code, r) ==
    /\ Ready
    /\ clicking[k].pc = "idle"
    /\ \A l \in LinksWithCode(code) : Len(links[l].clicks) < MaxClicks
    /\ IF LinksWithCode(code) = {}
       THEN /\ lastOp' = Response("click", 0, "home")
            /\ UNCHANGED clicking
       ELSE LET l == CHOOSE x \in LinksWithCode(code) : TRUE
            IN  /\ clicking' = [clicking EXCEPT ![k] =
                      [pc |-> "commit", link |-> l,
                       click_count |-> links[l].click_count + 1, r |-> r,
                       clicked_at |-> now]]
                /\ UNCHANGED lastOp
    /\ UNCHANGED <<customers, campaigns, nextCampaignId, recipients,
                   nextRecipientId, links, nextLinkId, ledger, jobs, schedulerUp,
                   now, mailLog, sends, cancels, reload, fired, serial>>

\* Second step: the recipient is selected and marked (lines 50-57) and the
\* session is committed (line 59): INSERT of the LinkClick, UPDATE of the
\* link's click_count to the value set in the first step
track_click_commit(k, fk) ==
    LET f == clicking[k] IN
    /\ f.pc = "commit"
    /\ IF f.link \notin DOMAIN links
          \/ (fk /\ f.r # 0 /\ f.r \notin DOMAIN recipients)
       THEN \* the commit fails: rolled back
            /\ lastOp' = Response("click", 0, "raised")
            /\ UNCHANGED <<links, recipients>>
       ELSE /\ links' = [links EXCEPT
                            ![f.link].click_count = f.click_count,
                            ![f.link].clicks =
                                Append(@, LinkClick(f.r, f.clicked_at))]
            /\ recipients' = IF FirstClick(f.r)
                             THEN [recipients EXCEPT ![f.r].clicked = TRUE,
                                                     ![f.r].clicked_at = now]
                             ELSE recipients
            /\ lastOp' = Response("click", f.link, "redirect")
    /\ clicking' = [clicking EXCEPT ![k] = IdleClick]
    /\ UNCHANGED <<customers, campaigns, nextCampaignId, nextRecipientId,
                   nextLinkId, ledger, jobs, schedulerUp, now, mailLog, sends,
                   cancels, reload, fired, serial>>

\* ------------------------------------------------------ clock and firing
JobDue(j) == jobs[j].run_at <= now

\* time passes; a running scheduler's timer wakes it at each run date, so the
\* clock does not pass a due job
Tick ==
    /\ now < MaxTime
    /\ ~(schedulerUp /\ \E j \in DOMAIN jobs : JobDue(j))
    /\ now' = now + 1
    /\ UNCHANGED <<customers, campaigns, nextCampaignId, recipients,
                   nextRecipientId, links, nextLinkId, ledger, jobs, schedulerUp,
                   mailLog, sends, cancels, reload, fired, lastOp, serial, clicking>>

\* a run of job j's callback has not returned: APScheduler counts the running
\* instances of each job id (max_instances is left at its default, 1)
Executing(j) ==
    /\ sends["job"].pc # "idle"
    /\ j = CampaignJobId(sends["job"].cid)

\* a job that stays in the store after a run
JobsAfterRunMutant(store, j, clock) == store

\* the store after job j was due: a date trigger has no next fire time and
\* the job is removed, a cron job gets its next run time
JobsAfterRun(store, j, clock) ==
    IF store[j].trigger = "date" THEN Without(store, {j})
    ELSE [store EXCEPT ![j].run_at = clock + 1]

\* the scheduler runs a due job: a date job leaves the store, a cron job gets
\* its next run time, and the callback is called unless a run of the same job
\* id is still executing (the run is then skipped).  execute_scheduled_campaign (lines 451-458) is
\* send_campaign in a session of its own; task_func is execute_task, which
\* raises at its import of AsyncSessionLocal (schedules.py line 136,
\* database.py defines no such name) before it does anything.
JobFire(j) ==
    /\ schedulerUp
    /\ serial => NoneInFlight
    /\ j \in DOMAIN jobs
    /\ JobDue(j)
    /\ jobs' = JobsAfterRun(jobs, j, now)
    /\ IF Executing(j)
       THEN UNCHANGED <<fired, sends, lastOp>>
       ELSE /\ fired' = Append(fired, [job_id |-> j, run_at |-> jobs[j].run_at,
                                       fn |-> jobs[j].func.fn])
            /\ IF jobs[j].func.fn = "execute_scheduled_campaign"
               THEN SendRead("job", jobs[j].func.campaign_id)
               ELSE UNCHANGED <<sends, lastOp>>
    /\ UNCHANGED <<customers, campaigns, nextCampaignId, recipients,
                   nextRecipientId, links, nextLinkId, ledger, schedulerUp, now,
                   mailLog, cancels, reload, serial, clicking>>

\* a job whose run time passed by more than misfire_grace_time (left at its
\* default of one second) is not run: the run is dropped like a skipped one
JobMisfire(j) ==
    /\ schedulerUp
    /\ j \in DOMAIN jobs
    /\ jobs[j].run_at < now
    /\ jobs' = JobsAfterRun(jobs, j, now)
    /\ UNCHANGED <<customers, campaigns, nextCampaignId, recipients,
                   nextRecipientId, links, nextLinkId, ledger, schedulerUp, now,
                   mailLog, sends, cancels, reload, fired, lastOp, serial, clicking>>

\* ---------------------------------------------- the scheduler service, called

\* scheduler_service.schedule_once(job_id, func, run_at) by any caller
ScheduleOnceCall(job_id, func, run_at) ==
    /\ reload.pc = "idle"
    /\ Len(fired) < MaxFired
    /\ IF NotInitialized(schedulerUp)
       THEN /\ lastOp' = Response("schedule_once", 0, "raised")
            /\ UNCHANGED jobs
       ELSE /\ jobs' = schedule_once(jobs, job_id, func, run_at)
            /\ lastOp' = Response("schedule_once", 0, "ok")
    /\ UNCHANGED <<customers, campaigns, nextCampaignId, recipients,
                   nextRecipientId, links, nextLinkId, ledger, schedulerUp, now,
                   mailLog, sends, cancels, reload, fired, serial, clicking>>

\* scheduler_service.schedule_recurring(job_id, func, cron_expression)
ScheduleRecurringCall(job_id, func, cron) ==
    /\ reload.pc = "idle"
    /\ Len(fired) < MaxFired
    /\ IF NotInitialized(schedulerUp) \/ ~ValidCron(cron)
       THEN /\ lastOp' = Response("schedule_recurring", 0, "raised")
            /\ UNCHANGED jobs
       ELSE /\ jobs' = schedule_recurring(jobs, job_id, func, cron, now)
            /\ lastOp' = Response("schedule_recurring", 0, "ok")
    /\ UNCHANGED <<customers, campaigns, nextCampaignId, recipients,
                   nextRecipientId, links, nextLinkId, ledger, schedulerUp, now,
                   mailLog, sends, cancels, reload, fired, serial, clicking>>

\* scheduler_service.cancel_job(job_id)
CancelJobCall(job_id) ==
    /\ reload.pc = "idle"
    /\ jobs' = IF schedulerUp THEN cancel_job(jobs, job_id) ELSE jobs
    /\ lastOp' = IF cancel_job_returns(schedulerUp, jobs, job_id)
                 THEN Response("cancel_job", 0, "true")
                 ELSE Response("cancel_job", 0, "false")
    /\ UNCHANGED <<customers, campaigns, nextCampaignId, recipients,
                   nextRecipientId, links, nextLinkId, ledger, schedulerUp, now,
                   mailLog, sends, cancels, reload, fired, serial, clicking>>

\* ----------------------------------------------------- shutdown and restart
\* the process ends (lifespan's shutdown, or a crash): the scheduler and its
\* MemoryJobStore go with it, and so does every coroutine in flight
Stop ==
    /\ reload.pc # "down"
    /\ schedulerUp' = FALSE
    /\ jobs' = <<>>
    /\ sends' = [s \in SendSlots |-> IdleSend]
    /\ cancels' = IdleCancel
    /\ reload' = [pc |-> "down", tasks |-> <<>>]
    /\ clicking' = [k \in ClickSlots |-> IdleClick]
    /\ UNCHANGED <<customers, campaigns, nextCampaignId, recipients,
                   nextRecipientId, links, nextLinkId, ledger, now, mailLog,
                   fired, lastOp, serial>>

\* the SELECT of lines 28-31 without its WHERE
PendingTasksMutant == DOMAIN ledger

PendingTasks == {t \in DOMAIN ledger : ledger[t].status = "pending"}

\* lifespan's startup: init_scheduler(), start(), then reload_scheduled_tasks
\* up to its SELECT of the pending rows (schedules.py lines 26-31)
Start ==
    /\ reload.pc = "down"
    /\ schedulerUp' = TRUE
    /\ jobs' = <<>>
    /\ reload' = [pc |-> "loading", tasks |-> SortedSeq(PendingTasks)]
    /\ UNCHANGED <<customers, campaigns, nextCampaignId, recipients,
                   nextRecipientId, links, nextLinkId, ledger, now, mailLog,
                   sends, cancels, fired, lastOp, serial, clicking>>

\* if task.is_recurring and task.cron_expression   (line 64)
ReloadRecurring(row) == row.is_recurring /\ Truthy(row.cron_expression)

\* line 74 with >= for >
ReloadArmsMutant(row, clock) ==
    row.scheduled_at # NoTime /\ row.scheduled_at >= clock

\* elif task.scheduled_at and task.scheduled_at > datetime.now()   (line 74)
ReloadArms(row, clock) == row.scheduled_at # NoTime /\ row.scheduled_at > clock

\* elif task.scheduled_at and task.scheduled_at <= datetime.now()   (line 84)
ReloadMisses(row, clock) == row.scheduled_at # NoTime /\ row.scheduled_at <= clock

\* one iteration of reload_scheduled_tasks' loop (lines 34-91); the callback
\* is rebuilt from the row's task_type and task_params
ReloadStep ==
    /\ reload.pc = "loading"
    /\ reload.tasks # <<>>
    /\ LET t == Head(reload.tasks)
           row == ledger[t]
           task_func == TaskCallback(row.task_type, row.task_params)
       IN  IF ReloadRecurring(row)
           THEN /\ jobs' = IF ValidCron(row.cron_expression)
                           THEN schedule_recurring(jobs, row.job_id, task_func,
                                                   row.cron_expression, now)
                           ELSE jobs
                /\ UNCHANGED ledger
           ELSE IF ReloadArms(row, now)
           THEN /\ jobs' = schedule_once(jobs, row.job_id, task_func,
                                         row.scheduled_at)
                /\ UNCHANGED ledger
           ELSE IF ReloadMisses(row, now)
           THEN /\ ledger' = [ledger EXCEPT ![t].status = "missed"]
                /\ UNCHANGED jobs
           ELSE UNCHANGED <<jobs, ledger>>
    /\ reload' = [reload EXCEPT !.tasks = Tail(@)]
    /\ UNCHANGED <<customers, campaigns, nextCampaignId, recipients,
                   nextRecipientId, links, nextLinkId, schedulerUp, now, mailLog,
                   sends, cancels, fired, lastOp, serial, clicking>>

\* the loop is over: the application starts serving requests
ReloadDone ==
    /\ reload.pc = "loading"
    /\ reload.tasks = <<>>
    /\ reload' = [pc |-> "idle", tasks |-> <<>>]
    /\ lastOp' = Response("reload", 0, "ok")
    /\ UNCHANGED <<customers, campaigns, nextCampaignId, recipients,
                   nextRecipientId, links, nextLinkId, ledger, jobs, schedulerUp,
                   now, mailLog, sends, cancels, fired, serial, clicking>>

\* ------------------------------------------------------------------ inputs
EmailA == <<"a", "@", "x">>
EmailAUpper == <<"A", "@", "x">>
EmailAPadded == <<" ", "a", "@", "x", " ">>
EmailB == <<"b", "@", "x">>
Blank == <<" ">>

HttpsLink == Href("https:", "//example.com")
ContentA == <<HttpsLink>>
ContentB == <<Href("mailto:", "x@y.com"), Href("#", "top"), HttpsLink>>

CampaignIds == 1..MaxCampaigns
Times == 1..MaxTime

\* the customers the life-cycle specifications start from: one with an
\* address, one whose address is the empty string the customer form stores
LifecycleCustomers ==
    <<[name |-> "c1", email |-> EmailA, parts |-> {}],
      [name |-> "c2", email |-> <<>>, parts |-> {}]>>

\* POST /campaigns bodies of the life-cycle specifications
LifecycleCreates ==
    {[customer_ids |-> {}, additional_emails |-> <<>>, use_filter |-> TRUE],
     [customer_ids |-> {}, additional_emails |-> <<EmailB>>, use_filter |-> TRUE],
     [customer_ids |-> {1}, additional_emails |-> <<EmailB, EmailAUpper>>,
      use_filter |-> FALSE]}

\* PUT /campaigns/{id} bodies
UpdateBodies ==
    {[name |-> "n2", subject |-> "s2"],
     [content |-> ContentB, course_type_filter |-> "complete"]}

NoResponse == Response("none", 0, "ok")

InitDb ==
    /\ campaigns = <<>>
    /\ nextCampaignId = 1
    /\ recipients = <<>>
    /\ nextRecipientId = 1
    /\ links = <<>>
    /\ nextLinkId = 1
    /\ ledger = <<>>

InitProcess ==
    /\ jobs = <<>>
    /\ schedulerUp = TRUE
    /\ now = 1
    /\ mailLog = <<>>
    /\ sends = [s \in SendSlots |-> IdleSend]
    /\ cancels = IdleCancel
    /\ reload = [pc |-> "idle", tasks |-> <<>>]
    /\ fired = <<>>
    /\ lastOp = NoResponse
    /\ clicking = [k \in ClickSlots |-> IdleClick]

\* ------------------------------------------- the campaign life cycle, serial
Init ==
    /\ customers = LifecycleCustomers
    /\ InitDb
    /\ InitProcess
    /\ serial = TRUE

Create ==
    \E b \in LifecycleCreates :
        create_campaign("n1", "s1", ContentA, "all", "all", b.customer_ids,
                        b.additional_emails, b.use_filter)

Update == \E c \in CampaignIds, k \in UpdateBodies : update_campaign(c, k)
Delete == \E c \in CampaignIds, fk \in BOOLEAN : delete_campaign(c, fk)
Schedule == \E c \in CampaignIds, t \in Times : schedule_campaign(c, t)
SendNow == \E c \in CampaignIds : send_campaign_now(c)
SendStart == \E s \in SendSlots : send_campaign_start(s)
SendRecipient ==
    \E s \in SendSlots, outcome \in TryOutcomes :
        \E codes \in [1..Len(TrackableHrefs(sends[s].content)) -> Codes] :
            send_recipient(s, outcome, codes)
SendFinish == \E s \in SendSlots : send_campaign_finish(s)
CancelRead == \E c \in CampaignIds : cancel_campaign_read(c)
CancelCommit == cancel_campaign_commit
Fire == \E j \in DOMAIN jobs : JobFire(j)

Next ==
    \/ Create
    \/ Update
    \/ Delete
    \/ Schedule
    \/ SendNow
    \/ SendStart
    \/ SendRecipient
    \/ SendFinish
    \/ CancelRead
    \/ CancelCommit
    \/ Fire
    \/ Tick

Spec == Init /\ [][Next]_vars

\* ------------------------------------- the same handlers, interleaved at awaits
InitRace ==
    /\ customers = LifecycleCustomers
    /\ InitDb
    /\ InitProcess
    /\ serial = FALSE

\* the handlers whose awaits the interleaving claims are about
NextRace ==
    \/ Create
    \/ Schedule
    \/ SendNow
    \/ SendStart
    \/ SendRecipient
    \/ SendFinish
    \/ CancelRead
    \/ CancelCommit
    \/ Fire
    \/ Tick

SpecRace == InitRace /\ [][NextRace]_vars

\* ------------------------------------------ scheduling, shutdown and restart
EveryMinute == <<"*", " ", "*", " ", "*", " ", "*", " ", "*">>
FourFields == <<"*", " ", "*", " ", "*", " ", "*">>

ReminderParams ==
    [customer_ids |-> {1}, additional_emails |-> <<>>, email_subject |-> "s",
     email_content |-> "c"]

CreateOne ==
    create_campaign("n1", "s1", ContentA, "all", "all", {1}, <<>>, FALSE)
CreateOnce ==
    \E t \in Times, u \in Codes :
        create_once_task("reminder_email", t, ReminderParams, u)
CreateRecurring ==
    \E cron \in {EveryMinute, FourFields}, u \in Codes :
        create_recurring_task("reminder_email", cron, ReminderParams, u)

JobIds ==
    {CampaignJobId(c) : c \in CampaignIds}
        \cup {<<"once", u>> : u \in Codes} \cup {<<"recurring", u>> : u \in Codes}

CancelSchedule == \E j \in JobIds : cancel_schedule(j)

NextRestart ==
    \/ CreateOne
    \/ Schedule
    \/ CreateOnce
    \/ CreateRecurring
    \/ CancelSchedule
    \/ SendStart
    \/ SendRecipient
    \/ SendFinish
    \/ Fire
    \/ Tick
    \/ Stop
    \/ Start
    \/ ReloadStep
    \/ ReloadDone

SpecRestart == Init /\ [][NextRestart]_vars

\* ------------------------------------------------ the scheduler service alone
\* the job ids and callbacks the service is called with: a campaign's id with
\* the campaign callback, a task's id with a task callback
ServiceJobIds == {CampaignJobId(c) : c \in CampaignIds} \cup {<<"once", 1>>}

CallbackFor(j) ==
    IF j[1] = "campaign" THEN CampaignCallback(j[2])
    ELSE TaskCallback("reminder_email", ReminderParams)

ServiceTimes == 1..MaxTime

CallOnce ==
    \E j \in ServiceJobIds, t \in ServiceTimes :
        ScheduleOnceCall(j, CallbackFor(j), t)
CallRecurring ==
    \E j \in ServiceJobIds, cron \in {EveryMinute, FourFields} :
        ScheduleRecurringCall(j, CallbackFor(j), cron)
CallCancel == \E j \in ServiceJobIds : CancelJobCall(j)
Misfire == \E j \in DOMAIN jobs : JobMisfire(j)

NextService ==
    \/ CreateOne
    \/ CallOnce
    \/ CallRecurring
    \/ CallCancel
    \/ Fire
    \/ Misfire
    \/ Tick
    \/ SendStart
    \/ SendRecipient
    \/ SendFinish

SpecService == InitRace /\ [][NextService]_vars

\* ------------------------------- recurring schedules and cancellation alone
SixFields == <<"*", " ", "*", " ", "*", " ", "*", " ", "*", " ", "*">>
EveryMinuteSpaced == <<" ", "*", " ", " ", "*", " ", "*", " ", "*", " ", "*">>
MalformedCrons == {FourFields, SixFields, <<>>, Blank}
CronInputs == {EveryMinute, EveryMinuteSpaced} \cup MalformedCrons

CronJobIds == {<<"recurring", u>> : u \in Codes}

CallRecurringAny ==
    \E j \in CronJobIds, cron \in CronInputs :
        ScheduleRecurringCall(j, TaskCallback("reminder_email", ReminderParams), cron)
PostRecurring ==
    \E cron \in CronInputs, u \in Codes :
        create_recurring_task("reminder_email", cron, ReminderParams, u)

CallCancelAny == \E j \in CronJobIds : CancelJobCall(j)
Unschedule == \E j \in CronJobIds : cancel_schedule(j)

NextCron ==
    \/ CallRecurringAny
    \/ PostRecurring
    \/ CallCancelAny
    \/ Unschedule
    \/ Fire
    \/ Tick

SpecCron == InitRace /\ [][NextCron]_vars

\* ----------------------------------------------- delivery and click tracking
\* the codes and recipient ids a click can carry: generated or not, of a row
\* or not
ClickCodes == 0..NumCodes
ClickRecipients == 0..2

Click ==
    \E code \in ClickCodes, r \in ClickRecipients, fk \in BOOLEAN :
        track_click(code, r, fk)

NextClick ==
    \/ CreateOne
    \/ SendNow
    \/ SendStart
    \/ SendRecipient
    \/ SendFinish
    \/ Click
    \/ Tick

SpecClick == Init /\ [][NextClick]_vars

\* ------------------------------------------- click requests, interleaved
ClickRead ==
    \E k \in ClickSlots, code \in ClickCodes, r \in ClickRecipients :
        track_click_read(k, code, r)
ClickCommit == \E k \in ClickSlots, fk \in BOOLEAN : track_click_commit(k, fk)

NextClickRace ==
    \/ CreateOne
    \/ SendNow
    \/ SendStart
    \/ SendRecipient
    \/ SendFinish
    \/ ClickRead
    \/ ClickCommit
    \/ Tick

SpecClickRace == InitRace /\ [][NextClickRace]_vars

\* --------------------------------------- the recipient resolver on its inputs
RECURSIVE SeqsUpTo(_, _)
\* the sequences over S of length at most n
SeqsUpTo(S, n) ==
    IF n = 0 THEN {<<>>}
    ELSE LET shorter == SeqsUpTo(S, n - 1)
         IN  shorter \cup {Append(q, x) : q \in shorter, x \in S}

\* customer rows: the address is NULL, empty, or stored as it was typed; the
\* customer took no course or bought a complete one
ResolveCustomerRows ==
    {[name |-> "c", email |-> e, parts |-> ps] :
        e \in {NoneStr, <<>>, EmailA, EmailAUpper},
        ps \in {{}, {[course_type |-> CompleteCourse, purchased |-> TRUE]}}}

ResolveFilters == {<<"all", "all">>, <<"complete", "purchased">>}
ResolveAdhocs == SeqsUpTo({EmailAPadded, EmailAUpper, EmailB, Blank}, MaxAdhoc)

InitResolve ==
    /\ customers \in SeqsUpTo(ResolveCustomerRows, MaxCustomers)
    /\ InitDb
    /\ InitProcess
    /\ serial = TRUE

\* one POST /campaigns on each customer table
CreateResolved ==
    /\ nextCampaignId = 1
    /\ \E flt \in ResolveFilters, ids \in SUBSET (1..MaxCustomers),
          adhoc \in ResolveAdhocs, use_filter \in BOOLEAN :
            create_campaign("n1", "s1", ContentA, flt[1], flt[2], ids, adhoc,
                            use_filter)

NextResolve == CreateResolved

SpecResolve == InitResolve /\ [][NextResolve]_vars

\* --------------------------------------------------- the rewriter on its own
MaxHrefs == 3

\* request.base_url with the trailing slash stripped (campaigns.py line 286)
BaseUrl == "http://localhost:8000"

\* hrefs of every skipped scheme, an absolute and a relative link
RewriteHrefs ==
    {Href("mailto:", "x@y.com"), Href("#", "top"), Href("tel:", "0912"),
     Href("javascript:", "void(0)"), HttpsLink, Href("/", "pricing")}

\* one stored campaign on each content
InitRewrite ==
    /\ customers = <<>>
    /\ \E content \in SeqsUpTo(RewriteHrefs, MaxHrefs) :
          campaigns = <<NewCampaign("n1", "s1", content, "all", "all")>>
    /\ nextCampaignId = 2
    /\ recipients = <<>>
    /\ nextRecipientId = 1
    /\ links = <<>>
    /\ nextLinkId = 1
    /\ ledger = <<>>
    /\ InitProcess
    /\ serial = TRUE

\* one call of process_content_with_tracking; its arguments and its return
\* value are kept in lastOp
Rewrite ==
    \E cid \in DOMAIN campaigns, rid \in 1..2, codes \in [1..MaxHrefs -> Codes] :
        /\ lastOp' = Response("rewrite", cid,
              [recipient_id |-> rid, base_url |-> BaseUrl,
               returned |-> process_content_with_tracking(
                               campaigns[cid].content, cid, rid, BaseUrl, codes)])
        /\ UNCHANGED <<customers, campaigns, nextCampaignId, recipients,
                       nextRecipientId, links, nextLinkId, ledger, jobs,
                       schedulerUp, now, mailLog, sends, cancels, reload, fired,
                       serial, clicking>>

NextRewrite == Rewrite

SpecRewrite == InitRewrite /\ [][NextRewrite]_vars

\* ------------------------------------- explicit cancellation, then a restart
NextCancel ==
    \/ CreateOne
    \/ Schedule
    \/ CreateOnce
    \/ CancelRead
    \/ CancelCommit
    \/ CancelSchedule
    \/ SendStart
    \/ SendRecipient
    \/ SendFinish
    \/ Fire
    \/ Tick
    \/ Stop
    \/ Start
    \/ ReloadStep
    \/ ReloadDone

SpecCancel == Init /\ [][NextCancel]_vars

\* ------------------------------- requests served before init_scheduler() ran
\* SchedulerService.__init__ (lines 16-17): self.scheduler is None
InitUninitialized ==
    /\ customers = LifecycleCustomers
    /\ InitDb
    /\ jobs = <<>>
    /\ schedulerUp = FALSE
    /\ now = 1
    /\ mailLog = <<>>
    /\ sends = [s \in SendSlots |-> IdleSend]
    /\ cancels = IdleCancel
    /\ reload = [pc |-> "idle", tasks |-> <<>>]
    /\ fired = <<>>
    /\ lastOp = NoResponse
    /\ clicking = [k \in ClickSlots |-> IdleClick]
    /\ serial = TRUE

\* scheduler_service.init_scheduler() and start()
InitScheduler ==
    /\ ~schedulerUp
    /\ reload.pc = "idle"
    /\ schedulerUp' = TRUE
    /\ UNCHANGED <<customers, campaigns, nextCampaignId, recipients,
                   nextRecipientId, links, nextLinkId, ledger, jobs, now, mailLog,
                   sends, cancels, reload, fired, lastOp, serial, clicking>>

NextUninitialized ==
    \/ CreateOne
    \/ Schedule
    \/ CreateOnce
    \/ CreateRecurring
    \/ CallOnce
    \/ CallRecurring
    \/ InitScheduler
    \/ Tick

SpecUninitialized == InitUninitialized /\ [][NextUninitialized]_vars

\* ------------------------------------------ the click log over two campaigns
\* the database after create and send of a first campaign (one recipient,
\* mailed, one tracked link with code 1) and the create of a second one that
\* is still a draft
InitClickLog ==
    /\ customers = LifecycleCustomers
    /\ campaigns =
          <<[NewCampaign("n1", "s1", ContentA, "all", "all") EXCEPT
                !.status = "completed", !.sent_at = 1,
                !.total_recipients = 1, !.sent_count = 1],
            [NewCampaign("n1", "s1", ContentA, "all", "all") EXCEPT
                !.total_recipients = 1]>>
    /\ nextCampaignId = 3
    /\ recipients =
          <<[CustomerRecipient(1, 1) EXCEPT !.sent = TRUE, !.sent_at = 1],
            CustomerRecipient(2, 1)>>
    /\ nextRecipientId = 3
    /\ links = TrackedLinkRows(1, ContentA, <<1>>)
    /\ nextLinkId = 2
    /\ ledger = <<>>
    /\ jobs = <<>>
    /\ schedulerUp = TRUE
    /\ now = 1
    /\ mailLog = <<[rid |-> 1, to |-> EmailA, ok |-> TRUE]>>
    /\ sends = [s \in SendSlots |-> IdleSend]
    /\ cancels = IdleCancel
    /\ reload = [pc |-> "idle", tasks |-> <<>>]
    /\ fired = <<>>
    /\ lastOp = Response("create", 2, "ok")
    /\ clicking = [k \in ClickSlots |-> IdleClick]
    /\ serial = TRUE

StoredCampaignIds == 1..2

UpdateStored == \E c \in StoredCampaignIds, k \in UpdateBodies : update_campaign(c, k)
DeleteStored == \E c \in StoredCampaignIds, fk \in BOOLEAN : delete_campaign(c, fk)
SendNowStored == \E c \in StoredCampaignIds : send_campaign_now(c)

NextClickLog ==
    \/ Click
    \/ UpdateStored
    \/ DeleteStored
    \/ SendNowStored
    \/ SendStart
    \/ SendRecipient
    \/ SendFinish
    \/ Stop
    \/ Start
    \/ ReloadDone

SpecClickLog == InitClickLog /\ [][NextClickLog]_vars

\* -------------------------- the scheduling endpoints, with no process restart
NextEndpoints ==
    \/ CreateOne
    \/ Schedule
    \/ SendNow
    \/ SendStart
    \/ SendRecipient
    \/ SendFinish
    \/ CancelRead
    \/ CancelCommit
    \/ CancelSchedule
    \/ Fire
    \/ Tick

SpecEndpoints == Init /\ [][NextEndpoints]_vars

\* ------------------------------------- task_params: json.dumps / json.loads
\* Python values of a request body after validation: None, an int, a str (its
\* characters) or a list
PyNone == [t |-> "None", v |-> <<>>]
PyInt(n) == [t |-> "int", v |-> n]
PyStr(chars) == [t |-> "str", v |-> chars]
PyList(items) == [t |-> "list", v |-> items]

\* a JSON text is the sequence of its tokens
Tok(k, v) == [k |-> k, v |-> v]

RECURSIVE EscapeChars(_)
\* the body of a JSON string: a quote or a backslash is written after a backslash
EscapeChars(s) ==
    IF s = <<>> THEN <<>>
    ELSE IF Head(s) \in {"\"", "\\"} THEN <<"\\", Head(s)>> \o EscapeChars(Tail(s))
    ELSE <<Head(s)>> \o EscapeChars(Tail(s))

\* json.loads reading a string body with no escapes undone
UnescapeCharsMutant(s) == s

RECURSIVE UnescapeChars(_)
\* the characters of a JSON string body: a backslash gives the character after it
UnescapeChars(s) ==
    IF s = <<>> THEN <<>>
    ELSE IF Head(s) = "\\" /\ Len(s) >= 2
    THEN <<s[2]>> \o UnescapeChars(SubSeq(s, 3, Len(s)))
    ELSE <<Head(s)>> \o UnescapeChars(Tail(s))

RECURSIVE DumpValue(_)
RECURSIVE DumpItems(_)
\* json.dumps of a list's items, separated by commas
DumpItems(items) ==
    IF items = <<>> THEN <<>>
    ELSE IF Len(items) = 1 THEN DumpValue(items[1])
    ELSE DumpValue(items[1]) \o <<Tok("punct", ",")>> \o DumpItems(Tail(items))

\* json.dumps(value, ensure_ascii=False)
DumpValue(x) ==
    IF x.t = "None" THEN <<Tok("null", 0)>>
    ELSE IF x.t = "int" THEN <<Tok("num", x.v)>>
    ELSE IF x.t = "str" THEN <<Tok("str", EscapeChars(x.v))>>
    ELSE <<Tok("punct", "[")>> \o DumpItems(x.v) \o <<Tok("punct", "]")>>

RECURSIVE DumpMembers(_)
\* the members of a dict given as its <<key, value>> pairs in insertion order
DumpMembers(pairs) ==
    IF pairs = <<>> THEN <<>>
    ELSE <<Tok("key", pairs[1][1]), Tok("punct", ":")>> \o DumpValue(pairs[1][2])
         \o (IF Len(pairs) = 1 THEN <<>> ELSE <<Tok("punct", ",")>>)
         \o DumpMembers(Tail(pairs))

\* json.dumps(dict)
json_dumps(pairs) == <<Tok("punct", "{")>> \o DumpMembers(pairs) \o <<Tok("punct", "}")>>

IsPunct(tok, c) == tok.k = "punct" /\ tok.v = c

RECURSIVE ParseValue(_, _)
RECURSIVE ParseItems(_, _, _)
\* the items of an array from token i on, up to its closing bracket
ParseItems(toks, i, acc) ==
    IF IsPunct(toks[i], "]") THEN [val |-> PyList(acc), next |-> i + 1]
    ELSE IF IsPunct(toks[i], ",") THEN ParseItems(toks, i + 1, acc)
    ELSE ParseItems(toks, ParseValue(toks, i).next,
                    Append(acc, ParseValue(toks, i).val))

\* the value that starts at token i, and the index after it
ParseValue(toks, i) ==
    IF toks[i].k = "null" THEN [val |-> PyNone, next |-> i + 1]
    ELSE IF toks[i].k = "num" THEN [val |-> PyInt(toks[i].v), next |-> i + 1]
    ELSE IF toks[i].k = "str"
    THEN [val |-> PyStr(UnescapeChars(toks[i].v)), next |-> i + 1]
    ELSE ParseItems(toks, i + 1, <<>>)

RECURSIVE ParseMembers(_, _, _)
\* the members of an object from token i on: a dict, key -> value
ParseMembers(toks, i, acc) ==
    IF IsPunct(toks[i], "}") THEN acc
    ELSE IF IsPunct(toks[i], ",") THEN ParseMembers(toks, i + 1, acc)
    ELSE ParseMembers(toks, ParseValue(toks, i + 2).next,
                      [k \in DOMAIN acc \cup {toks[i].v} |->
                          IF k = toks[i].v THEN ParseValue(toks, i + 2).val
                          ELSE acc[k]])

\* json.loads(text) of an object
json_loads(toks) == ParseMembers(toks, 2, <<>>)

\* dict.get(key): None when the key is absent
DictGet(d, key) == IF key \in DOMAIN d THEN d[key] ELSE PyNone

\* the arguments task_func captures at creation (schedules.py lines 238-253,
\* 380-397)
CreationArgs(task) ==
    [task_type |-> task.task_type, description |-> task.description,
     customer_ids |-> task.customer_ids,
     additional_emails |-> task.additional_emails,
     email_subject |-> task.email_subject, email_content |-> task.email_content]

\* task_params = {...}; json.dumps(task_params, ensure_ascii=False)
\* (lines 267-272, 281)
TaskParamsText(task) ==
    json_dumps(<<<<"customer_ids", task.customer_ids>>,
                 <<"additional_emails", task.additional_emails>>,
                 <<"email_subject", task.email_subject>>,
                 <<"email_content", task.email_content>>>>)

\* the columns of the ScheduledTask row the callback is rebuilt from
\* (lines 276-284, 415-423)
StoredTask(task) ==
    [task_type |-> task.task_type, description |-> task.description,
     task_params |-> TaskParamsText(task)]

\* reload_scheduled_tasks rebuilding the arguments from a row (lines 36-45)
ReloadArgs(row) ==
    LET params == IF row.task_params # <<>> THEN json_loads(row.task_params)
                  ELSE <<>>
    IN  [task_type |-> row.task_type, description |-> row.description,
         customer_ids |-> DictGet(params, "customer_ids"),
         additional_emails |-> DictGet(params, "additional_emails"),
         email_subject |-> DictGet(params, "email_subject"),
         email_content |-> DictGet(params, "email_content")]

\* request bodies: absent, empty and filled lists and strings, with the
\* characters JSON escapes
TaskBodies ==
    [task_type : {"reminder_email", "campaign_send"},
     description : {PyStr(<<>>), PyStr(<<"d">>)},
     customer_ids : {PyNone, PyList(<<>>), PyList(<<PyInt(1)>>),
                     PyList(<<PyInt(2), PyInt(1)>>)},
     additional_emails : {PyNone, PyList(<<>>), PyList(<<PyStr(EmailA)>>),
                          PyList(<<PyStr(EmailB), PyStr(<<"a", "\"", "b">>)>>)},
     email_subject : {PyNone, PyStr(<<>>), PyStr(<<"s">>),
                      PyStr(<<"\\", "\"", ",">>)},
     email_content : {PyNone, PyStr(<<"<", "p", ">">>)}]

\* a generic task is created and its callback is rebuilt from the stored row;
\* lastOp keeps both sets of arguments
StoreAndReload ==
    \E task \in TaskBodies :
        /\ lastOp' = Response("params", 0,
              [created |-> CreationArgs(task), row |-> StoredTask(task),
               reloaded |-> ReloadArgs(StoredTask(task))])
        /\ UNCHANGED <<customers, campaigns, nextCampaignId, recipients,
                       nextRecipientId, links, nextLinkId, ledger, jobs,
                       schedulerUp, now, mailLog, sends, cancels, reload, fired,
                       serial, clicking>>

NextParams == StoreAndReload

SpecParams == Init /\ [][NextParams]_vars

\* ================================================================== claims

SendInFlight(c) == \E s \in SendSlots : sends[s].pc # "idle" /\ sends[s].cid = c

Mailed(r) == \E i \in 1..Len(mailLog) : mailLog[i].rid = r
MailedOk(r) == \E i \in 1..Len(mailLog) : mailLog[i].rid = r /\ mailLog[i].ok

\* ---- C1
StatusChanges ==
    {<<"draft", "scheduled">>, <<"draft", "sending">>, <<"scheduled", "sending">>,
     <<"sending", "completed">>, <<"draft", "cancelled">>,
     <<"scheduled", "cancelled">>}

\* C1: with the handlers run one at a time, every step that changes a
\* campaign's status makes one of the six listed changes, and a campaign that
\* is completed or cancelled keeps its row and its status in every step.
C1_StatusTransitions ==
    [][\A c \in DOMAIN campaigns :
          /\ (c \in DOMAIN campaigns' /\ campaigns'[c].status # campaigns[c].status)
                => <<campaigns[c].status, campaigns'[c].status>> \in StatusChanges
          /\ campaigns[c].status \in {"completed", "cancelled"}
                => (c \in DOMAIN campaigns'
                    /\ campaigns'[c].status = campaigns[c].status)]_vars

\* a scheduled campaign was sent to completion and a later cancel was refused
C1_Witness ==
    \E c \in DOMAIN campaigns :
        /\ campaigns[c].status = "completed"
        /\ campaigns[c].scheduled_at # NoTime
        /\ lastOp = Response("cancel", c, "rejected")

\* ---- C2
\* C2: once a send of a campaign has ended, every recipient of the campaign
\* has been mailed or carries a recorded failure, and the send did not end by
\* raising.  (No recipient is sent before a campaign's first send, so every
\* recipient is unsent on entry.)
C2_EveryRecipientProcessed ==
    \A c \in DOMAIN campaigns :
        (campaigns[c].status \in {"sending", "completed"} /\ ~SendInFlight(c))
            => /\ \A r \in RecipientsOf(c) :
                     Mailed(r) \/ recipients[r].error_message # ""
               /\ lastOp # Response("send", c, "raised")

\* ---- C3
\* C3: a campaign whose status is sending has a send_campaign coroutine in
\* flight, whose remaining steps end with status completed: the status is
\* never left at sending with nothing running that would complete it.
C3_SendingIsCompleted ==
    \A c \in DOMAIN campaigns :
        campaigns[c].status = "sending" => SendInFlight(c)

\* ---- C4
SentOk(c) ==
    {r \in RecipientsOf(c) : Truthy(RecipientEmail(recipients[r])) /\ MailedOk(r)}

\* C4: when a send has completed, the campaign's status is completed,
\* sent_count is the number of its recipients with a usable address that the
\* mailer reported success for, and failed_count the number of all others.
C4_CountsAtCompletion ==
    \A c \in DOMAIN campaigns :
        (campaigns[c].status = "completed" \/ lastOp = Response("send", c, "ok"))
            => /\ campaigns[c].status = "completed"
               /\ campaigns[c].sent_count = Cardinality(SentOk(c))
               /\ campaigns[c].failed_count =
                     Cardinality(RecipientsOf(c)) - Cardinality(SentOk(c))

\* one recipient without an address, one mailed with success: 1 sent, 1 failed
C4_Witness ==
    \E c \in DOMAIN campaigns :
        /\ campaigns[c].status = "completed"
        /\ Cardinality(RecipientsOf(c)) = 2
        /\ \E r \in RecipientsOf(c) : NoUsableEmail(recipients[r])
        /\ \E r \in RecipientsOf(c) : MailedOk(r)
        /\ campaigns[c].sent_count = 1
        /\ campaigns[c].failed_count = 1

\* ---- C5
\* a send of campaign c is asked for: by POST send-now or by its job firing
SendRequested(c) ==
    \/ send_campaign_now(c)
    \/ \E j \in DOMAIN jobs :
          /\ jobs[j].func.fn = "execute_scheduled_campaign"
          /\ jobs[j].func.campaign_id = c
          /\ JobFire(j)

\* C5: a send asked for on a campaign that does not exist or whose status is
\* neither draft nor scheduled returns an error and leaves the campaign rows,
\* the recipient rows and the tracked links as they were, starts no delivery
\* and calls the mailer for nobody.
C5_RejectedSendChangesNothing ==
    [][\A c \in CampaignIds :
          (/\ SendRequested(c)
           /\ (c \notin DOMAIN campaigns
               \/ campaigns[c].status \notin {"draft", "scheduled"}))
          => /\ lastOp' = Response("send", c, "rejected")
             /\ UNCHANGED <<campaigns, recipients, links, mailLog, sends>>]_vars

\* a send was refused on a campaign that is completed, cancelled or sending
C5_Witness ==
    \E c \in DOMAIN campaigns :
        /\ campaigns[c].status \in {"completed", "cancelled", "sending"}
        /\ lastOp = Response("send", c, "rejected")

\* ---- C6
EditableFields ==
    {"name", "subject", "content", "course_type_filter", "purchase_status_filter"}

\* C6: an update or a delete asked for on a campaign that is not a draft is
\* rejected and leaves campaigns, recipients and tracked links as they were;
\* and no step changes name, subject, content or a filter of a campaign that
\* is not a draft.
C6_OnlyDraftsAreEdited ==
    [][\A c \in DOMAIN campaigns :
          /\ (((\E fk \in BOOLEAN : delete_campaign(c, fk)) \/ \E k \in UpdateBodies : update_campaign(c, k))
              /\ campaigns[c].status # "draft")
                => /\ lastOp'.result = "rejected"
                   /\ UNCHANGED <<campaigns, recipients, links>>
          /\ (c \in DOMAIN campaigns'
              /\ \E fld \in EditableFields : campaigns'[c][fld] # campaigns[c][fld])
                => campaigns[c].status = "draft"]_vars

\* an update was refused on a campaign that is no longer a draft
C6_Witness ==
    \E c \in DOMAIN campaigns :
        /\ campaigns[c].status # "draft"
        /\ lastOp = Response("update", c, "rejected")

\* ---- C7
\* C7: with the handlers interleaved at their awaits, a committed status
\* cancelled is never overwritten, and a status sending is never overwritten
\* by cancelled.
C7_CancelAndSendExclude ==
    [][\A c \in DOMAIN campaigns \cap DOMAIN campaigns' :
          /\ campaigns[c].status = "cancelled" => campaigns'[c].status = "cancelled"
          /\ campaigns[c].status = "sending" => campaigns'[c].status # "cancelled"]_vars

\* ---- C8
\* the address a recipient is mailed at, trimmed and lower-cased
NormalizedAddress(rec) == NormalizeEmail(RecipientEmail(rec))

\* C8: in every campaign create_campaign produced, no two recipients share a
\* customer id and no two recipients with an address share the normalized
\* address (a customer-bound recipient's address is its customer's email).
C8_RecipientsAreDistinct ==
    \A c \in DOMAIN campaigns : \A r1, r2 \in RecipientsOf(c) :
        r1 # r2 =>
            /\ ~(recipients[r1].customer_id # 0
                 /\ recipients[r1].customer_id = recipients[r2].customer_id)
            /\ ~(/\ Truthy(RecipientEmail(recipients[r1]))
                 /\ Truthy(RecipientEmail(recipients[r2]))
                 /\ NormalizedAddress(recipients[r1]) = NormalizedAddress(recipients[r2]))

\* ---- C9
\* C9: every campaign's total_recipients is the number of recipient rows
\* create_campaign persisted for it.
C9_TotalIsRowCount ==
    \A c \in DOMAIN campaigns :
        campaigns[c].total_recipients = Cardinality(RecipientsOf(c))

\* a campaign whose recipients came from the customers and from an ad-hoc
\* address, two ad-hoc addresses having been given
C9_Witness ==
    \E c \in DOMAIN campaigns :
        /\ lastOp = Response("create", c, "ok")
        /\ campaigns[c].total_recipients = 2
        /\ \E r \in RecipientsOf(c) : recipients[r].customer_id # 0
        /\ \E r \in RecipientsOf(c) : recipients[r].customer_id = 0

\* ---- C10
\* a one-shot row: not recurring, with a trigger time
OneShot(row) == ~row.is_recurring /\ row.scheduled_at # NoTime

\* the store holds the job of a ledger row: the row's job_id with the row's
\* trigger time
HoldsJobOf(store, row) ==
    /\ row.job_id \in DOMAIN store
    /\ store[row.job_id].trigger = "date"
    /\ store[row.job_id].run_at = row.scheduled_at

\* the scheduler invokes a callback in this step, and it is the row's
RowFires(row) ==
    /\ Len(fired') = Len(fired) + 1
    /\ fired'[Len(fired')].job_id = row.job_id
    /\ fired'[Len(fired')].run_at = row.scheduled_at

\* restart recovery visits row t in this step
Visits(t) ==
    /\ reload.pc = "loading"
    /\ reload.tasks # <<>>
    /\ Head(reload.tasks) = t
    /\ reload'.pc = "loading"
    /\ reload'.tasks = Tail(reload.tasks)

\* C10: when restart recovery visits a pending one-shot ledger row whose
\* scheduled_at is not after the current time, the row becomes missed and no
\* job is registered for it; and a missed row has no job in the scheduler and
\* its callback is not invoked.
C10_ElapsedRowsAreMissed ==
    [][/\ \A t \in DOMAIN ledger :
            (/\ Visits(t)
             /\ ledger[t].status = "pending"
             /\ OneShot(ledger[t])
             /\ ledger[t].scheduled_at <= now)
            => /\ ledger'[t].status = "missed"
               /\ ~HoldsJobOf(jobs', ledger'[t])
       /\ \A t \in DOMAIN ledger' :
            ledger'[t].status = "missed"
            => /\ ~HoldsJobOf(jobs', ledger'[t])
               /\ ~RowFires(ledger'[t])]_vars

\* recovery is over and the scheduler runs, and recovery has marked missed a
\* one-shot row whose time had come
C10_Witness ==
    /\ reload.pc = "idle"
    /\ schedulerUp
    /\ \E t \in DOMAIN ledger :
        /\ ledger[t].status = "missed"
        /\ OneShot(ledger[t])
        /\ ledger[t].scheduled_at <= now

\* ---- C11
\* restart recovery returns in this step
RecoveryCompletes == reload.pc = "loading" /\ reload'.pc = "idle"

\* the row is one recovery re-arms: recurring with a cron expression, or
\* one-shot with its time after the clock
ToBeArmed(row, clock) ==
    \/ row.is_recurring /\ Truthy(row.cron_expression)
    \/ OneShot(row) /\ row.scheduled_at > clock

\* the store holds a job with the row's job_id and the row's trigger
ArmedFor(store, row) ==
    /\ row.job_id \in DOMAIN store
    /\ IF row.is_recurring
       THEN /\ store[row.job_id].trigger = "cron"
            /\ store[row.job_id].cron = row.cron_expression
       ELSE /\ store[row.job_id].trigger = "date"
            /\ store[row.job_id].run_at = row.scheduled_at

\* C11: when restart recovery completes, every pending ledger row that is
\* recurring or one-shot with scheduled_at still in the future has a job with
\* its job_id and trigger in the scheduler, recovery leaves such a row pending
\* when it visits it, and no row with another status has a job.
C11_PendingRowsAreRearmed ==
    [][/\ RecoveryCompletes =>
            \A t \in DOMAIN ledger' :
                /\ (ledger'[t].status = "pending" /\ ToBeArmed(ledger'[t], now'))
                      => ArmedFor(jobs', ledger'[t])
                /\ ledger'[t].status # "pending"
                      => ledger'[t].job_id \notin DOMAIN jobs'
       /\ \A t \in DOMAIN ledger :
            (Visits(t) /\ ledger[t].status = "pending" /\ ToBeArmed(ledger[t], now))
            => ledger'[t].status = "pending"]_vars

\* recovery has just completed with a recurring row armed and a cancelled
\* row, its time still ahead, left without a job
C11_Witness ==
    /\ reload.pc = "idle"
    /\ lastOp = Response("reload", 0, "ok")
    /\ \E t \in DOMAIN ledger :
        /\ ledger[t].status = "pending" /\ ledger[t].is_recurring
        /\ ArmedFor(jobs, ledger[t]) /\ jobs[ledger[t].job_id].func.fn = "task_func"
    /\ \E t \in DOMAIN ledger :
        /\ ledger[t].status = "cancelled"
        /\ ledger[t].scheduled_at > now
        /\ ledger[t].job_id \notin DOMAIN jobs

\* ---- C12
\* the scheduler invokes the callback of job j in this step
Fires(j) ==
    /\ Len(fired') = Len(fired) + 1
    /\ fired'[Len(fired')].job_id = j

\* C12: whenever the job campaign_{id} of a scheduled campaign fires, rebuilt
\* by restart recovery or not, the Delivery Executor starts on that campaign.
C12_CampaignJobStartsDelivery ==
    [][\A c \in DOMAIN campaigns :
          (Fires(CampaignJobId(c)) /\ campaigns[c].status = "scheduled")
          => (sends'["job"].pc = "start" /\ sends'["job"].cid = c)]_vars

\* ---- C13
\* C13: POST /campaigns/{id}/schedule and POST /schedules/once with a time
\* that is not after the current time are rejected and leave the ledger, the
\* job store and the campaigns (status and scheduled_at included) unchanged.
C13_PastScheduleIsRejected ==
    [][/\ \A c \in CampaignIds, t \in Times :
            (t <= now /\ schedule_campaign(c, t))
            => /\ lastOp' = Response("schedule", c, "rejected")
               /\ UNCHANGED <<ledger, jobs, campaigns>>
       /\ \A t \in Times, u \in Codes :
            (t <= now /\ create_once_task("reminder_email", t, ReminderParams, u))
            => /\ lastOp' = Response("once", 0, "rejected")
               /\ UNCHANGED <<ledger, jobs, campaigns>>]_vars

\* a draft campaign's schedule request was rejected: its time was not ahead
C13_Witness ==
    \E c \in DOMAIN campaigns :
        /\ campaigns[c].status = "draft"
        /\ campaigns[c].scheduled_at = NoTime
        /\ lastOp = Response("schedule", c, "rejected")

\* ---- C14
\* C14: schedule_once called with a run time that is not after the current
\* time raises and leaves the job store as it was.
C14_PastTriggerIsRefused ==
    [][\A j \in ServiceJobIds, t \in ServiceTimes :
          (t <= now /\ ScheduleOnceCall(j, CallbackFor(j), t))
          => /\ lastOp' = Response("schedule_once", 0, "raised")
             /\ UNCHANGED jobs]_vars

\* ---- C15
\* the store after the call binds j to job and every other id as before
OnlyRebinds(j, job) ==
    /\ DOMAIN jobs' = DOMAIN jobs \cup {j}
    /\ jobs'[j] = job
    /\ \A k \in DOMAIN jobs \ {j} : jobs'[k] = jobs[k]

\* C15: the job store binds each job id to one job; schedule_once and
\* schedule_recurring with an id, present in the store or not, succeed and
\* leave that id bound to the new trigger and callback only, and cancel_job
\* removes that id's job and no other.
C15_SchedulingUpserts ==
    [][/\ \A j \in ServiceJobIds, t \in ServiceTimes :
            ScheduleOnceCall(j, CallbackFor(j), t)
            => /\ lastOp' = Response("schedule_once", 0, "ok")
               /\ OnlyRebinds(j, [trigger |-> "date", run_at |-> t,
                                  cron |-> NoneStr, func |-> CallbackFor(j)])
       /\ \A j \in ServiceJobIds :
            ScheduleRecurringCall(j, CallbackFor(j), EveryMinute)
            => /\ lastOp' = Response("schedule_recurring", 0, "ok")
               /\ OnlyRebinds(j, [trigger |-> "cron", run_at |-> now + 1,
                                  cron |-> EveryMinute, func |-> CallbackFor(j)])
       /\ \A j \in ServiceJobIds :
            CancelJobCall(j)
            => /\ j \notin DOMAIN jobs'
               /\ \A k \in DOMAIN jobs \ {j} : k \in DOMAIN jobs' /\ jobs'[k] = jobs[k]]_vars

\* an id that has run as a cron job is bound to a date trigger by the
\* schedule_once that returned last, another id keeping its job
C15_Witness ==
    /\ lastOp = Response("schedule_once", 0, "ok")
    /\ \E j \in DOMAIN jobs :
        /\ jobs[j].trigger = "date"
        /\ \E i \in 1..Len(fired) : fired[i].job_id = j /\ fired[i].run_at > jobs[j].run_at
        /\ \E k \in DOMAIN jobs : k # j

\* ---- C16
\* C16: schedule_recurring with a cron expression that has not exactly five
\* whitespace-separated fields raises and leaves the job store as it was, and
\* POST /schedules/recurring with such an expression fails and leaves the
\* ledger and the job store as they were.
C16_MalformedCronIsRefused ==
    [][\A cron \in MalformedCrons :
          /\ \A j \in CronJobIds :
                ScheduleRecurringCall(j, TaskCallback("reminder_email", ReminderParams), cron)
                => /\ lastOp' = Response("schedule_recurring", 0, "raised")
                   /\ UNCHANGED jobs
          /\ \A u \in Codes :
                create_recurring_task("reminder_email", cron, ReminderParams, u)
                => /\ lastOp' = Response("recurring", 0, "raised")
                   /\ UNCHANGED <<ledger, jobs>>]_vars

\* POST /schedules/recurring has just failed with no ledger row to clash
\* with: its expression was malformed
C16_Witness ==
    /\ lastOp = Response("recurring", 0, "raised")
    /\ ledger = <<>>
    /\ jobs # <<>>

\* ---- C17
\* C17: cancel_job with a job id the store does not hold returns False
\* without raising and leaves the store as it was; DELETE /schedules/{job_id}
\* with an id that has neither a job nor a ledger row changes no ledger row
\* (and no job) and answers 404.
C17_CancelOfUnknownIdIsANoOp ==
    [][\A j \in CronJobIds :
          /\ (j \notin DOMAIN jobs /\ CancelJobCall(j))
                => /\ lastOp' = Response("cancel_job", 0, "false")
                   /\ UNCHANGED jobs
          /\ (j \notin DOMAIN jobs /\ TasksWithJobId(j) = {} /\ cancel_schedule(j))
                => /\ lastOp' = Response("unschedule", 0, "rejected")
                   /\ UNCHANGED <<ledger, jobs>>]_vars

\* cancel_job has just returned False while the store and the ledger hold
\* another id's job and row
C17_Witness ==
    /\ lastOp = Response("cancel_job", 0, "false")
    /\ jobs # <<>>
    /\ ledger # <<>>

\* ---- C18
\* the delivery a callback of job j started has not finished
RunInFlight(j) ==
    sends["job"].pc # "idle" /\ j = <<"campaign", sends["job"].cid>>

\* C18: when the scheduler invokes the callback of a job id, no earlier run of
\* that job id is still executing, and the trigger occurrence that fired
\* cannot fire again: a one-shot job has left the store, a recurring job's
\* next run time is later.  (Runs of different job ids are not kept apart.)
C18_OneRunPerOccurrence ==
    [][\A j \in DOMAIN jobs :
          Fires(j)
          => /\ ~RunInFlight(j)
             /\ j \notin DOMAIN jobs' \/ jobs'[j].run_at > jobs[j].run_at]_vars

\* a job is due while an earlier run of the same job id is executing, and
\* another job id's callback was invoked during that run
C18_Witness ==
    /\ \E j \in DOMAIN jobs : jobs[j].run_at <= now /\ RunInFlight(j)
    /\ fired # <<>>
    /\ ~RunInFlight(fired[Len(fired)].job_id)

\* ---- C19
\* C19: a click with a tracking code that no TrackedLink has redirects to /
\* and creates no TrackedLink and no LinkClick, changes no click_count and no
\* recipient row, whatever recipient id it carries.
C19_UnknownCodeChangesNothing ==
    [][\A code \in ClickCodes, r \in ClickRecipients, fk \in BOOLEAN :
          (/\ \A l \in DOMAIN links : links[l].tracking_code # code
           /\ track_click(code, r, fk))
          => /\ lastOp' = Response("click", 0, "home")
             /\ UNCHANGED <<links, nextLinkId, recipients>>]_vars

\* a click was sent home while tracked links and recipients exist
C19_Witness ==
    /\ lastOp = Response("click", 0, "home")
    /\ links # <<>>
    /\ recipients # <<>>

\* ---- C20
\* C20: a click with a known tracking code and an existing recipient id
\* appends one LinkClick to the link and adds one to its click_count; it sets
\* clicked and clicked_at of that recipient if the recipient had not clicked,
\* and later clicks change neither.
C20_FirstClickWins ==
    [][\A code \in ClickCodes, r \in DOMAIN recipients, fk \in BOOLEAN :
          \A l \in DOMAIN links :
            (links[l].tracking_code = code /\ track_click(code, r, fk))
            => /\ links'[l].click_count = links[l].click_count + 1
               /\ links'[l].clicks =
                     Append(links[l].clicks, [recipient_id |-> r, clicked_at |-> now])
               /\ recipients'[r].clicked
               /\ recipients'[r].clicked_at =
                     IF recipients[r].clicked THEN recipients[r].clicked_at ELSE now]_vars

\* a recipient clicked a link twice, the second time after the first: the
\* link counts two clicks and the recipient carries the first click's time
C20_Witness ==
    \E l \in DOMAIN links, r \in DOMAIN recipients :
        /\ links[l].click_count = 2
        /\ Len(links[l].clicks) = 2
        /\ links[l].clicks[1].recipient_id = r
        /\ links[l].clicks[2].recipient_id = r
        /\ links[l].clicks[1].clicked_at < links[l].clicks[2].clicked_at
        /\ recipients[r].clicked
        /\ recipients[r].clicked_at = links[l].clicks[1].clicked_at

\* ---- C21
\* the hrefs among src[1..i] that do not start with a skipped prefix
OtherHrefsUpTo(src, i) == {j \in 1..i : src[j].scheme \notin {"mailto:", "tel:", "javascript:", "#"}}

C22_CodesAreDistinctAndHarmless ==
    /\ \A l, m \in DOMAIN links :
          l # m => links[l].tracking_code # links[m].tracking_code
    /\ \A c \in DOMAIN campaigns : lastOp # Response("send", c, "raised")

\* ---- C23
RowsOfJob(tasks, j) == {t \in DOMAIN tasks : tasks[t].job_id = j}

\* C23: a step that completes a successful explicit cancellation of a job, by
\* POST /campaigns/{id}/cancel for campaign_{id} or by DELETE
\* /schedules/{job_id}, leaves every ledger row of that job id with status
\* cancelled.
C23_CancelReachesTheLedger ==
    [][/\ \A j \in JobIds :
             (cancel_schedule(j) /\ lastOp'.result = "ok")
                 => \A t \in RowsOfJob(ledger', j) : ledger'[t].status = "cancelled"
       /\ (cancel_campaign_commit /\ lastOp'.result = "ok")
             => \A t \in RowsOfJob(ledger', CampaignJobId(cancels.cid)) :
                   ledger'[t].status = "cancelled"]_vars

\* ---- C24
Quiescent == schedulerUp /\ reload.pc = "idle" /\ NoneInFlight

\* C24: in every state with the application serving and no request in flight,
\* every job of the in-memory scheduler has a ledger row with its job id, and
\* every pending row that is recurring or whose scheduled_at is still in the
\* future has a job in the scheduler.
C24_SchedulerMatchesLedger ==
    Quiescent =>
        /\ \A j \in DOMAIN jobs : RowsOfJob(ledger, j) # {}
        /\ \A t \in DOMAIN ledger :
              (/\ ledger[t].status = "pending"
               /\ (ledger[t].is_recurring \/ ledger[t].scheduled_at > now))
                  => ledger[t].job_id \in DOMAIN jobs

\* ---- C25
\* C25: while the scheduler is not initialized, a call of schedule_once or
\* schedule_recurring raises and registers no job, and a scheduling endpoint
\* ends with an error, leaving the scheduler, the ledger and the campaigns as
\* they were.
C25_UninitializedSchedulerRefuses ==
    [][~schedulerUp =>
          /\ (CallOnce \/ CallRecurring)
                => (lastOp'.result = "raised" /\ jobs' = jobs)
          /\ (Schedule \/ CreateOnce \/ CreateRecurring)
                => /\ lastOp'.result \in {"raised", "rejected"}
                   /\ jobs' = jobs
                   /\ ledger' = ledger
                   /\ campaigns' = campaigns]_vars

\* a draft was asked to be scheduled for a future time before the scheduler
\* was initialized: the request raised and the draft is still a draft
C25_Witness ==
    /\ ~schedulerUp
    /\ \E c \in DOMAIN campaigns :
          /\ lastOp = Response("schedule", c, "raised")
          /\ campaigns[c].status = "draft"
    /\ ledger = <<>>
    /\ jobs = <<>>

\* ---- C26
\* C26: no step removes or changes a LinkClick event: every tracked link that
\* holds click events is still there after the step, and each of its events
\* is still there with the same recipient_id and clicked_at.
C26_ClickLogOnlyGrows ==
    [][\A l \in DOMAIN links :
          \A i \in 1..Len(links[l].clicks) :
              /\ l \in DOMAIN links'
              /\ i <= Len(links'[l].clicks)
              /\ links'[l].clicks[i] = links[l].clicks[i]]_vars

\* ---- C27
MailerCalls(r) == {i \in 1..Len(mailLog) : mailLog[i].rid = r}

\* C27: under any interleaving of the send invocations of a campaign, at most
\* one of them is past the draft/scheduled precondition at a time, and the
\* mailer is invoked at most once for each recipient.
C27_OneSendPerCampaign ==
    /\ \A s, t \in SendSlots :
          (s # t /\ sends[s].pc # "idle" /\ sends[t].pc # "idle")
              => sends[s].cid # sends[t].cid
    /\ \A r \in DOMAIN recipients : Cardinality(MailerCalls(r)) <= 1

\* ---- C28
\* C28: while a send is in its loop, the stored row of every recipient the
\* loop has already passed holds that recipient's outcome: sent is true or an
\* error_message is recorded.  (The stored rows are what a crash leaves.)
C28_OutcomesAreCommitted ==
    \A s \in SendSlots :
        sends[s].pc = "loop" =>
            \A k \in 1..(sends[s].pos - 1) :
                LET r == sends[s].rlist[k]
                IN  r \in DOMAIN recipients =>
                        (recipients[r].sent \/ recipients[r].error_message # "")

\* ---- C29
CallbackInvoked(j) == \E i \in 1..Len(fired) : fired[i].job_id = j

\* C29: a one-shot ledger row with status missed is the row of a job whose
\* callback was never invoked.
C29_MissedMeansNeverRun ==
    \A t \in DOMAIN ledger :
        (ledger[t].status = "missed" /\ ~ledger[t].is_recurring)
            => ~CallbackInvoked(ledger[t].job_id)

\* ---- C30
\* C30: for every TrackedLink, click_count is the number of LinkClick events
\* that reference it, also when track_click requests for the same code are
\* interleaved between the read of the link and the commit.
C30_CountMatchesClickLog ==
    \A l \in DOMAIN links : links[l].click_count = Len(links[l].clicks)

\* ---- C31
SentRows(c) == {r \in RecipientsOf(c) : recipients[r].sent}

\* C31: whenever a campaign's status is completed, sent_count is the number
\* of its recipient rows with sent = true, and sent_count + failed_count is
\* total_recipients.
C31_CountsMatchRows ==
    \A c \in DOMAIN campaigns :
        campaigns[c].status = "completed"
            => /\ campaigns[c].sent_count = Cardinality(SentRows(c))
               /\ campaigns[c].sent_count + campaigns[c].failed_count
                     = campaigns[c].total_recipients

\* ---- C32
\* C32: with no request and no send in flight, every campaign whose status is
\* scheduled has its job campaign_{id} in the scheduler.
C32_ScheduledCampaignsAreArmed ==
    Quiescent =>
        \A c \in DOMAIN campaigns :
            campaigns[c].status = "scheduled" => CampaignJobId(c) \in DOMAIN jobs

\* ---- C33
\* C33: the arguments of the callback rebuilt from a generic task's ledger row
\* (task_type, description, customer_ids, additional_emails, email_subject,
\* email_content) equal the arguments the callback captured at creation.
C33_ParamsRoundTrip ==
    lastOp.op = "params" => lastOp.result.reloaded = lastOp.result.created

\* a task whose lists are filled and whose subject holds a quote and a
\* backslash was stored and rebuilt
C33_Witness ==
    /\ lastOp.op = "params"
    /\ lastOp.result.created.email_subject = [t |-> "str", v |-> <<"\\", "\"", ",">>]
    /\ Len(lastOp.result.created.customer_ids.v) = 2
    /\ Len(lastOp.result.row.task_params) > 20
    /\ lastOp.result.reloaded.additional_emails.t = "list"

MatchesPredicates(cust, course_type_filter, purchase_status_filter) ==
    \/ course_type_filter = "all" /\ purchase_status_filter = "all"
    \/ \E p \in cust.parts :
          /\ course_type_filter = "complete" => p.course_type = CompleteCourse
          /\ course_type_filter = "experience" => p.course_type = ExperienceCourse
          /\ purchase_status_filter = "purchased" => p.purchased
          /\ purchase_status_filter = "not_purchased" => ~p.purchased

\* C35: a create with use_filter true and no explicit ids or ad-hoc addresses
\* adds one recipient row for each customer that has a non-empty email address
\* and matches both predicates, and no other row.
C35_FilterStepAddsMatchingCustomers ==
    [][\A flt \in ResolveFilters :
          create_campaign("n1", "s1", ContentA, flt[1], flt[2], {}, <<>>, TRUE)
              => LET expected == {i \in 1..Len(customers) :
                                     /\ customers[i].email # NoneStr
                                     /\ customers[i].email # <<>>
                                     /\ MatchesPredicates(customers[i], flt[1], flt[2])}
                 IN  /\ {recipients'[r].customer_id : r \in DOMAIN recipients'}
                           = expected
                     /\ Cardinality(DOMAIN recipients') = Cardinality(expected)]_vars

\* ---- C36
\* C36: a click with a known tracking code and a recipient id that no
\* recipient row has, or with no recipient id, appends one LinkClick, adds one
\* to click_count, answers with the redirect to the link's original_url and
\* changes no recipient row.
C36_UnknownRecipientStillRedirects ==
    [][\A code \in ClickCodes, r \in ClickRecipients, fk \in BOOLEAN :
          \A l \in DOMAIN links :
            (/\ links[l].tracking_code = code
             /\ r \notin DOMAIN recipients
             /\ track_click(code, r, fk))
            => /\ lastOp' = Response("click", l, "redirect")
               /\ links'[l].click_count = links[l].click_count + 1
               /\ links'[l].clicks = Append(links[l].clicks, LinkClick(r, now))
               /\ UNCHANGED recipients]_vars

\* ---- C37
\* C37: a click on a link of one campaign never marks a recipient of another
\* campaign: a recipient row whose clicked or clicked_at a click changes
\* belongs to the campaign of the link the tracking code names.
C37_ClickMarksOwnCampaignOnly ==
    [][\A code \in ClickCodes, r \in ClickRecipients, fk \in BOOLEAN :
          \A l \in DOMAIN links :
            (links[l].tracking_code = code /\ track_click(code, r, fk))
            => \A x \in DOMAIN recipients :
                  recipients'[x] # recipients[x]
                      => recipients[x].campaign_id = links[l].campaign_id]_vars

\* ---- C38
\* C38: a create that failed while resolving its recipients leaves no campaign
\* row and no recipient row of that campaign; a create that succeeded leaves
\* the campaign row together with total_recipients recipient rows.
C38_CreateIsAllOrNothing ==
    \A c \in CampaignIds :
        /\ lastOp = Response("create", c, "raised")
              => /\ c \notin DOMAIN campaigns
                 /\ \A r \in DOMAIN recipients : recipients[r].campaign_id # c
        /\ lastOp = Response("create", c, "ok")
              => /\ c \in DOMAIN campaigns
                 /\ Cardinality({r \in DOMAIN recipients :
                                    recipients[r].campaign_id = c})
                       = campaigns[c].total_recipients

\* ---- C39
\* the mailer calls a run of execute_task with these arguments is to make: one
\* for each listed customer id of a customer with an email, one for each
\* ad-hoc email that is not blank
ExpectedTaskMails(func) ==
    Cardinality({i \in func.params.customer_ids \cap (1..Len(customers)) :
                    Truthy(customers[i].email)})
    + Cardinality({k \in 1..Len(func.params.additional_emails) :
                      Strip(func.params.additional_emails[k]) # <<>>})

\* C39: when a generic task of type campaign_send or reminder_email with a
\* subject and a content fires, the mailer is invoked once for each listed
\* customer with an email and once for each non-blank ad-hoc email.
C39_FiredTaskMailsItsAudience ==
    [][\A j \in DOMAIN jobs :
          (/\ jobs[j].func.fn = "task_func"
           /\ jobs[j].func.task_type \in {"campaign_send", "reminder_email"}
           /\ jobs[j].func.params.email_subject # ""
           /\ jobs[j].func.params.email_content # ""
           /\ JobFire(j)
           /\ Len(fired') = Len(fired) + 1)
          => Len(mailLog') = Len(mailLog) + ExpectedTaskMails(jobs[j].func)]_vars

====
